---- MODULE Spec2Model ----
(***************************************************************************)
(* State-test runner of zkevm-circuits (testool/src/statetest).            *)
(*                                                                         *)
(*   executor.rs : run_test and its helpers (into_traceconfig,             *)
(*                 check_geth_traces, trace_config_to_witness_block_l1/l2, *)
(*                 check_post, StateTestError::is_skip)                    *)
(*   suite.rs    : run_statetests_suite and its closure run_state_test     *)
(*                                                                         *)
(* The tracer, the witness builder, the prover and the state database are  *)
(* external collaborators: their outcomes are inputs drawn from small sets *)
(* each time run_test runs.  The Result Store (results.rs) is not part of  *)
(* the sources at hand and is modelled from its documented contract.       *)
(***************************************************************************)
EXTENDS Integers, Sequences, FiniteSets, TLC

(***************************************************************************)
(* Bounds of the model.                                                    *)
(***************************************************************************)
\* longest input batch handed to run_statetests_suite
MaxTests == 2
\* largest struct_logs length a tracer outcome carries
MaxTraceSteps == 2
\* largest gas value a tracer outcome carries
MaxTraceGas == 2

(***************************************************************************)
(* Program constants.                                                      *)
(***************************************************************************)
\* suite.rs:196
PARALLELISM == 20
\* width of a U256 in bytes (executor.rs:493 reads byte 0 of 32)
U256Bytes == 32

\* no execution unit
NoUnit == 0 - 1

(***************************************************************************)
(* U256.  A value is kept as its 32 bytes, least significant first (the    *)
(* limb order of the U256 type); to_be_bytes reverses them.                *)
(***************************************************************************)
U256 == [1..U256Bytes -> 0..255]

\* U256::from for a value below 256
U256From(n) == [i \in 1..U256Bytes |-> IF i = 1 THEN n ELSE 0]

\* 2^248: the smallest value whose top byte is nonzero
Pow248 == [i \in 1..U256Bytes |-> IF i = U256Bytes THEN 1 ELSE 0]

\* 2^248 - 1: the largest value whose top byte is zero
Pow248m1 == [i \in 1..U256Bytes |-> IF i = U256Bytes THEN 0 ELSE 255]

U256Zero == U256From(0)

to_be_bytes(v) == [i \in 1..U256Bytes |-> v[U256Bytes + 1 - i]]

(***************************************************************************)
(* Text.  A message is a sequence of words; contains is substring search   *)
(* at word granularity.                                                    *)
(***************************************************************************)
CIRCUIT_NOT_SATISFIED == <<"circuit", "was", "not", "satisfied">>
EVM_UNIMPLEMENTED == <<"evm_unimplemented">>
UNABLE_TO_GET_PANIC_INFO == <<"unable", "to", "get", "panic", "info">>
IGNORED_IN_CONFIG == <<"Ignored", "in", "config", "file">>
NO_ERROR == <<"no", "error">>

contains(s, pat) ==
    \E k \in 0..(Len(s) - Len(pat)) :
        \A j \in 1..Len(pat) : s[k + j] = pat[j]

\* format!("{}#{}", id, path)
Key(id, path) == id \o "#" \o path

(***************************************************************************)
(* Values shared by the operators below.                                   *)
(***************************************************************************)
NoValue == [some |-> FALSE]
Some(x) == [some |-> TRUE, v |-> x]

BoolStr(b) == IF b THEN "true" ELSE "false"

\* Result<(), StateTestError>, or a panic that unwinds out of the call
Ok == [kind |-> "Ok"]
Err(e) == [kind |-> "Err", err |-> e]
Panic(ty, msg) == [kind |-> "Panic", payload |-> [type |-> ty, msg |-> msg]]

(***************************************************************************)
(* StateTestError (executor.rs:23-50) and its Display rendering.           *)
(***************************************************************************)
CircuitInput(text) == [tag |-> "CircuitInput", text |-> text]
BalanceMismatch(e, f) == [tag |-> "BalanceMismatch", expected |-> e, found |-> f]
NonceMismatch(e, f) == [tag |-> "NonceMismatch", expected |-> e, found |-> f]
CodeMismatch(e, f) == [tag |-> "CodeMismatch", expected |-> e, found |-> f]
StorageMismatch(s, e, f) ==
    [tag |-> "StorageMismatch", slot |-> s, expected |-> e, found |-> f]
SkipTestMaxGasLimit(g) == [tag |-> "SkipTestMaxGasLimit", gas |-> g]
SkipTestMaxSteps(n) == [tag |-> "SkipTestMaxSteps", steps |-> n]
SkipTestSelfDestruct == [tag |-> "SkipTestSelfDestruct"]
SkipTestBalanceOverflow == [tag |-> "SkipTestBalanceOverflow"]
Exception(e, f) == [tag |-> "Exception", expected |-> e, found |-> f]

to_string(err) ==
    CASE err.tag = "CircuitInput" ->
            <<"CannotGenerateCircuitInput(">> \o err.text \o <<")">>
      [] err.tag = "BalanceMismatch" ->
            <<"BalanceMismatch(expected:", ToString(err.expected),
              ", found:", ToString(err.found), ")">>
      [] err.tag = "NonceMismatch" ->
            <<"NonceMismatch(expected:", ToString(err.expected),
              ", found:", ToString(err.found), ")">>
      [] err.tag = "CodeMismatch" ->
            <<"CodeMismatch(expected: ", ToString(err.expected),
              ", found:", ToString(err.found), ")">>
      [] err.tag = "StorageMismatch" ->
            <<"StorgeMismatch(slot:", ToString(err.slot),
              " expected:", ToString(err.expected),
              ", found: ", ToString(err.found), ")">>
      [] err.tag = "SkipTestMaxGasLimit" ->
            <<"SkipTestMaxGasLimit(", ToString(err.gas), ")">>
      [] err.tag = "SkipTestMaxSteps" ->
            <<"SkipTestMaxSteps(", ToString(err.steps), ")">>
      [] err.tag = "SkipTestSelfDestruct" -> <<"SkipTestSelfDestruct">>
      [] err.tag = "SkipTestBalanceOverflow" -> <<"SkipTestBalanceOverflow">>
      [] err.tag = "Exception" ->
            <<"Exception(expected:", BoolStr(err.expected), ", found:">>
                \o err.found \o <<")">>

\* StateTestError::is_skip (executor.rs:53-63)
is_skip(err) ==
    err.tag \in {"SkipTestMaxSteps", "SkipTestMaxGasLimit", "SkipTestSelfDestruct"}

(***************************************************************************)
(* check_post (executor.rs:72-126).                                        *)
(*                                                                         *)
(* sdb is the state database of the builder: an account for every address  *)
(* (get_account yields the zero account for an address it does not hold).  *)
(* code_db maps a code hash to its bytes.  post maps an address to its     *)
(* AccountMatch; order is the order in which the HashMap iterator yields   *)
(* the addresses of post.                                                  *)
(***************************************************************************)
\* the lookup that takes an unset slot for one
storage_get_unset_is_one(actual, slot) ==
    IF slot \in DOMAIN actual.storage THEN actual.storage[slot] ELSE U256From(1)

\* actual.storage.get(slot).cloned().unwrap_or_else(U256::zero)
storage_get(actual, slot) ==
    IF slot \in DOMAIN actual.storage THEN actual.storage[slot] ELSE U256Zero

RECURSIVE check_storage(_, _, _)
check_storage(actual, storage, k) ==
    IF k > Len(storage) THEN Ok
    ELSE LET slot == storage[k][1]
             expected_value == storage[k][2]
             actual_value == storage_get(actual, slot)
         IN IF expected_value # actual_value
            THEN Err(StorageMismatch(slot, expected_value, actual_value))
            ELSE check_storage(actual, storage, k + 1)

\* the body of the loop with the nonce compared before the balance
check_account_nonce_first(actual, code_db, expected) ==
    IF expected.nonce.some /\ expected.nonce.v # actual.nonce
    THEN Err(NonceMismatch(expected.nonce.v, actual.nonce))
    ELSE IF expected.balance.some /\ expected.balance.v # actual.balance
    THEN Err(BalanceMismatch(expected.balance.v, actual.balance))
    ELSE IF expected.code.some /\ actual.code_hash # 0
            /\ actual.code_hash \notin DOMAIN code_db
    THEN Panic("String", <<"key", "not", "found">>)
    ELSE LET actual_code == IF actual.code_hash = 0 THEN <<>>
                            ELSE code_db[actual.code_hash]
         IN IF expected.code.some /\ actual_code # expected.code.v
            THEN Err(CodeMismatch(expected.code.v, actual_code))
            ELSE check_storage(actual, expected.storage, 1)

\* the body of the loop for one address (executor.rs:79-122)
check_account(actual, code_db, expected) ==
    IF expected.balance.some /\ expected.balance.v # actual.balance
    THEN Err(BalanceMismatch(expected.balance.v, actual.balance))
    ELSE IF expected.nonce.some /\ expected.nonce.v # actual.nonce
    THEN Err(NonceMismatch(expected.nonce.v, actual.nonce))
    ELSE IF expected.code.some /\ actual.code_hash # 0
            /\ actual.code_hash \notin DOMAIN code_db
    THEN Panic("String", <<"key", "not", "found">>)
    ELSE LET actual_code == IF actual.code_hash = 0 THEN <<>>
                            ELSE code_db[actual.code_hash]
         IN IF expected.code.some /\ actual_code # expected.code.v
            THEN Err(CodeMismatch(expected.code.v, actual_code))
            ELSE check_storage(actual, expected.storage, 1)

RECURSIVE check_post_from(_, _, _, _, _)
check_post_from(sdb, code_db, post, order, k) ==
    IF k > Len(order) THEN Ok
    ELSE LET r == check_account(sdb[order[k]], code_db, post[order[k]])
         IN IF r.kind # "Ok" THEN r
            ELSE check_post_from(sdb, code_db, post, order, k + 1)

check_post(sdb, code_db, post, order) == check_post_from(sdb, code_db, post, order, 1)

(***************************************************************************)
(* into_traceconfig (executor.rs:128-198).  The wallet is built from the   *)
(* fixture's secret key and the call panics on a malformed key.            *)
(***************************************************************************)
\* LocalWallet::from_str: a key is 32 bytes and not zero
wallet_from_str(secret_key) ==
    Len(secret_key) = 32 /\ \E i \in 1..Len(secret_key) : secret_key[i] # 0

VARIABLE
    probe             \* a function under study: its arguments and its value

\* bus_mapping::util::CHECK_MEM_STRICT: a value the process fixes once, from
\* its environment
CHECK_MEM_STRICT == IF probe.fn = "into_traceconfig" THEN probe.check_mem_strict ELSE FALSE

\* U256::from_big_endian: the bytes, most significant first, as a value
from_big_endian(bytes) == [i \in 1..U256Bytes |-> bytes[U256Bytes + 1 - i]]

\* the transaction request of executor.rs:131-142; `to` is set only if the
\* fixture has one
TransactionRequest(st) ==
    [chain_id |-> 1, from |-> st.from, nonce |-> st.nonce, value |-> st.value,
     data |-> st.data, gas |-> st.gas_limit, gas_price |-> st.gas_price, to |-> st.to]

\* tx.rlp(): the encoding of the request
rlp(tx) == [rlp |-> tx]

\* wallet.sign_transaction_sync: the signature the key gives to the request
sign_transaction_sync(secret_key, tx) == [signer |-> secret_key, signed |-> tx]

\* tx.rlp_signed(&sig)
rlp_signed(tx, sig) == [rlp |-> tx, sig |-> sig]

keccak256(bytes) == [keccak |-> bytes]

\* the block-hash history without the change of byte order
into_traceconfig_raw_hash(st) ==
    IF ~wallet_from_str(st.secret_key)
    THEN Panic("String", <<"called", "Result::unwrap()", "on", "an", "Err", "value">>)
    ELSE LET tx == TransactionRequest(st)
             sig == sign_transaction_sync(st.secret_key, tx)
         IN [kind |-> "Ok",
             id |-> st.id,
             trace_config |->
                [chain_id |-> 1,
                 history_hashes |-> <<st.env.previous_hash>>,
                 block_constants |->
                    [coinbase |-> st.env.current_coinbase,
                     timestamp |-> U256From(st.env.current_timestamp),
                     number |-> st.env.current_number,
                     difficulty |-> st.env.current_difficulty,
                     gas_limit |-> U256From(st.env.current_gas_limit),
                     base_fee |-> st.env.current_base_fee],
                 transactions |->
                    << [tx_type |-> "Eip155", from |-> st.from, to |-> st.to,
                        nonce |-> st.nonce, value |-> st.value,
                        gas_limit |-> U256From(st.gas_limit),
                        gas_price |-> st.gas_price,
                        gas_fee_cap |-> 0, gas_tip_cap |-> 0,
                        call_data |-> st.data, access_list |-> NoValue,
                        sig |-> sig,
                        rlp_bytes |-> rlp_signed(tx, sig),
                        rlp_unsigned_bytes |-> rlp(tx),
                        hash |-> keccak256(rlp_signed(tx, sig))] >>,
                 accounts |-> st.pre,
                 logger_config |-> [enable_memory |-> CHECK_MEM_STRICT]],
             result |-> st.result]

into_traceconfig(st) ==
    IF ~wallet_from_str(st.secret_key)
    THEN Panic("String", <<"called", "Result::unwrap()", "on", "an", "Err", "value">>)
    ELSE LET tx == TransactionRequest(st)
             sig == sign_transaction_sync(st.secret_key, tx)
         IN [kind |-> "Ok",
             id |-> st.id,
             trace_config |->
                [chain_id |-> 1,
                 history_hashes |-> <<from_big_endian(st.env.previous_hash)>>,
                 block_constants |->
                    [coinbase |-> st.env.current_coinbase,
                     timestamp |-> U256From(st.env.current_timestamp),
                     number |-> st.env.current_number,
                     difficulty |-> st.env.current_difficulty,
                     gas_limit |-> U256From(st.env.current_gas_limit),
                     base_fee |-> st.env.current_base_fee],
                 transactions |->
                    << [tx_type |-> "Eip155", from |-> st.from, to |-> st.to,
                        nonce |-> st.nonce, value |-> st.value,
                        gas_limit |-> U256From(st.gas_limit),
                        gas_price |-> st.gas_price,
                        gas_fee_cap |-> 0, gas_tip_cap |-> 0,
                        call_data |-> st.data, access_list |-> NoValue,
                        sig |-> sig,
                        rlp_bytes |-> rlp_signed(tx, sig),
                        rlp_unsigned_bytes |-> rlp(tx),
                        hash |-> keccak256(rlp_signed(tx, sig))] >>,
                 accounts |-> st.pre,
                 logger_config |-> [enable_memory |-> CHECK_MEM_STRICT]],
             result |-> st.result]

(***************************************************************************)
(* check_geth_traces (executor.rs:211-240).  A trace carries the length of *)
(* its struct_logs, its gas and whether a SELFDESTRUCT step occurs in it.  *)
(***************************************************************************)
\* the guards with >= in place of >
check_geth_traces_at_limit(geth_traces, suite, skip_self_destruct) ==
    IF skip_self_destruct
          /\ \E i \in 1..Len(geth_traces) : geth_traces[i].selfdestruct
    THEN Err(SkipTestSelfDestruct)
    ELSE IF Len(geth_traces) = 0
    THEN Panic("String", <<"index", "out", "of", "bounds">>)
    ELSE IF geth_traces[1].steps >= suite.max_steps
    THEN Err(SkipTestMaxSteps(geth_traces[1].steps))
    ELSE IF suite.max_gas > 0 /\ geth_traces[1].gas >= suite.max_gas
    THEN Err(SkipTestMaxGasLimit(geth_traces[1].gas))
    ELSE Ok

\* the guards with the gas limit looked at before the step limit
check_geth_traces_gas_first(geth_traces, suite, skip_self_destruct) ==
    IF skip_self_destruct
          /\ \E i \in 1..Len(geth_traces) : geth_traces[i].selfdestruct
    THEN Err(SkipTestSelfDestruct)
    ELSE IF Len(geth_traces) = 0
    THEN Panic("String", <<"index", "out", "of", "bounds">>)
    ELSE IF suite.max_gas > 0 /\ geth_traces[1].gas > suite.max_gas
    THEN Err(SkipTestMaxGasLimit(geth_traces[1].gas))
    ELSE IF geth_traces[1].steps > suite.max_steps
    THEN Err(SkipTestMaxSteps(geth_traces[1].steps))
    ELSE Ok

\* the guards with the gas limit applied even when it is zero
check_geth_traces_gas_always(geth_traces, suite, skip_self_destruct) ==
    IF skip_self_destruct
          /\ \E i \in 1..Len(geth_traces) : geth_traces[i].selfdestruct
    THEN Err(SkipTestSelfDestruct)
    ELSE IF Len(geth_traces) = 0
    THEN Panic("String", <<"index", "out", "of", "bounds">>)
    ELSE IF geth_traces[1].steps > suite.max_steps
    THEN Err(SkipTestMaxSteps(geth_traces[1].steps))
    ELSE IF geth_traces[1].gas > suite.max_gas
    THEN Err(SkipTestMaxGasLimit(geth_traces[1].gas))
    ELSE Ok

check_geth_traces(geth_traces, suite, skip_self_destruct) ==
    IF skip_self_destruct
          /\ \E i \in 1..Len(geth_traces) : geth_traces[i].selfdestruct
    THEN Err(SkipTestSelfDestruct)
    ELSE IF Len(geth_traces) = 0
    THEN Panic("String", <<"index", "out", "of", "bounds">>)
    ELSE IF geth_traces[1].steps > suite.max_steps
    THEN Err(SkipTestMaxSteps(geth_traces[1].steps))
    ELSE IF suite.max_gas > 0 /\ geth_traces[1].gas > suite.max_gas
    THEN Err(SkipTestMaxGasLimit(geth_traces[1].gas))
    ELSE Ok

(***************************************************************************)
(* Trace acquisition and witness construction.                             *)
(*                                                                         *)
(* env holds what the collaborators answer during one run_test:            *)
(*   env.trace   : [ok |-> TRUE, traces |-> ...] or [ok |-> FALSE, text]   *)
(*   env.witness : [kind |-> "ok"], [kind |-> "handle_err", text |-> ...]  *)
(*                 or [kind |-> "panic", payload |-> ...]                  *)
(*   env.prove   : [kind |-> "pass"] or [kind |-> "panic", payload |-> ...]*)
(*   env.sdb, env.code_db, env.order : the state database of the builder   *)
(*                 and the iteration order of the post map                 *)
(* The value returned carries, besides the outcome, the collaborators      *)
(* called, in call order.                                                  *)
(***************************************************************************)
\* the match with the two exception=true arms exchanged
match_exception_swapped(trace, exception) ==
    IF trace.ok /\ ~exception THEN [kind |-> "Traces", traces |-> trace.traces]
    ELSE IF trace.ok /\ exception THEN [kind |-> "None"]
    ELSE IF ~trace.ok /\ exception THEN Err(Exception(TRUE, NO_ERROR))
    ELSE Err(Exception(FALSE, trace.text))

\* the match with a fault on exception=false let through as an empty trace
match_exception_lenient(trace, exception) ==
    IF trace.ok /\ ~exception THEN [kind |-> "Traces", traces |-> trace.traces]
    ELSE IF trace.ok /\ exception THEN Err(Exception(TRUE, NO_ERROR))
    ELSE IF ~trace.ok /\ exception THEN [kind |-> "None"]
    ELSE [kind |-> "Traces", traces |-> <<[steps |-> 0, gas |-> 0, selfdestruct |-> FALSE]>>]

\* the match with a fault on exception=true not short-circuited
match_exception_no_short_circuit(trace, exception) ==
    IF trace.ok /\ ~exception THEN [kind |-> "Traces", traces |-> trace.traces]
    ELSE IF trace.ok /\ exception THEN Err(Exception(TRUE, NO_ERROR))
    ELSE IF ~trace.ok /\ exception
    THEN [kind |-> "Traces", traces |-> <<[steps |-> 0, gas |-> 0, selfdestruct |-> FALSE]>>]
    ELSE Err(Exception(FALSE, trace.text))

\* the match on (trace result, st.exception), executor.rs:253-268, 313-328
match_exception(trace, exception) ==
    IF trace.ok /\ ~exception THEN [kind |-> "Traces", traces |-> trace.traces]
    ELSE IF trace.ok /\ exception THEN Err(Exception(TRUE, NO_ERROR))
    ELSE IF ~trace.ok /\ exception THEN [kind |-> "None"]
    ELSE Err(Exception(FALSE, trace.text))

\* the L1 path with the builder's error reported as a skip
trace_config_to_witness_block_l1_skip(trace_config, st, suite, skip_self_destruct, env) ==
    LET m == match_exception(env.trace, st.exception)
        g == check_geth_traces(m.traces, suite, skip_self_destruct)
    IN IF m.kind # "Traces"
       THEN [out |-> m, calls |-> <<"tracer">>]
       ELSE IF g.kind # "Ok"
       THEN [out |-> g, calls |-> <<"tracer", "check_geth_traces">>]
       ELSE [out |-> CASE env.witness.kind = "ok" -> [kind |-> "Some"]
                       [] env.witness.kind = "handle_err" ->
                              Err(SkipTestMaxSteps(0))
                       [] env.witness.kind = "panic" ->
                              [kind |-> "Panic", payload |-> env.witness.payload],
             calls |-> <<"tracer", "check_geth_traces", "witness">>]

\* executor.rs:302-397 (feature "scroll" off)
trace_config_to_witness_block_l1(trace_config, st, suite, skip_self_destruct, env) ==
    LET m == match_exception(env.trace, st.exception)
        g == check_geth_traces(m.traces, suite, skip_self_destruct)
    IN IF m.kind # "Traces"
       THEN [out |-> m, calls |-> <<"tracer">>]
       ELSE IF g.kind # "Ok"
       THEN [out |-> g, calls |-> <<"tracer", "check_geth_traces">>]
       ELSE [out |-> CASE env.witness.kind = "ok" -> [kind |-> "Some"]
                       [] env.witness.kind = "handle_err" ->
                              Err(CircuitInput(env.witness.text))
                       [] env.witness.kind = "panic" ->
                              [kind |-> "Panic", payload |-> env.witness.payload],
             calls |-> <<"tracer", "check_geth_traces", "witness">>]

\* executor.rs:243-299 (feature "scroll" on)
trace_config_to_witness_block_l2(trace_config, st, suite, skip_self_destruct, env) ==
    LET m == match_exception(env.trace, st.exception)
        g == check_geth_traces(m.traces, suite, skip_self_destruct)
    IN IF m.kind # "Traces"
       THEN [out |-> m, calls |-> <<"tracer">>]
       ELSE IF g.kind # "Ok"
       THEN [out |-> g, calls |-> <<"tracer", "check_geth_traces">>]
       ELSE [out |-> CASE env.witness.kind = "ok" -> [kind |-> "Some"]
                       [] env.witness.kind = "handle_err" ->
                              Panic("String",
                                    <<"could", "not", "handle", "block", "tx:">>
                                        \o env.witness.text)
                       [] env.witness.kind = "panic" ->
                              [kind |-> "Panic", payload |-> env.witness.payload],
             calls |-> <<"tracer", "check_geth_traces", "witness">>]

\* the loop over trace_config.accounts, executor.rs:492-496
balance_overflow(accounts) ==
    \E a \in DOMAIN accounts : to_be_bytes(accounts[a].balance)[1] # 0

\* the proving step, executor.rs:531-546
prove(env) ==
    IF env.prove.kind = "pass" THEN Ok
    ELSE [kind |-> "Panic", payload |-> env.prove.payload]

\* run_test with the post-state compared before the proof is attempted
run_test_post_first(tc, st, suite, circuits_config, build, env) ==
    LET w == IF build.scroll
             THEN trace_config_to_witness_block_l2(tc.trace_config, st, suite,
                                                 build.skip_self_destruct, env)
             ELSE trace_config_to_witness_block_l1(tc.trace_config, st, suite,
                                                 build.skip_self_destruct, env)
        p == prove(env)
        c == check_post(env.sdb, env.code_db, tc.result, env.order)
    IN IF tc.kind = "Panic"
       THEN [result |-> tc, calls |-> <<"into_traceconfig">>]
       ELSE IF balance_overflow(tc.trace_config.accounts)
       THEN [result |-> Err(SkipTestBalanceOverflow), calls |-> <<"into_traceconfig">>]
       ELSE IF w.out.kind \in {"Err", "Panic"}
       THEN [result |-> w.out, calls |-> <<"into_traceconfig">> \o w.calls]
       ELSE IF w.out.kind = "None"
       THEN [result |-> Ok, calls |-> <<"into_traceconfig">> \o w.calls]
       ELSE IF c.kind # "Ok"
       THEN [result |-> c, calls |-> <<"into_traceconfig">> \o w.calls \o <<"check_post">>]
       ELSE [result |-> p,
             calls |-> <<"into_traceconfig">> \o w.calls \o <<"check_post", "prover">>]

\* run_test with the balance guard placed after trace acquisition
run_test_guard_late(tc, st, suite, circuits_config, build, env) ==
    LET w == IF build.scroll
             THEN trace_config_to_witness_block_l2(tc.trace_config, st, suite,
                                                 build.skip_self_destruct, env)
             ELSE trace_config_to_witness_block_l1(tc.trace_config, st, suite,
                                                 build.skip_self_destruct, env)
    IN IF tc.kind = "Panic"
       THEN [result |-> tc, calls |-> <<"into_traceconfig">>]
       ELSE IF balance_overflow(tc.trace_config.accounts)
       THEN [result |-> Err(SkipTestBalanceOverflow),
             calls |-> <<"into_traceconfig">> \o w.calls]
       ELSE [result |-> Ok, calls |-> <<"into_traceconfig">> \o w.calls]

\* run_test (executor.rs:483-551); tc is the value of into_traceconfig(st),
\* its first statement (490)
run_test(tc, st, suite, circuits_config, build, env) ==
    LET w == IF build.scroll
             THEN trace_config_to_witness_block_l2(tc.trace_config, st, suite,
                                                 build.skip_self_destruct, env)
             ELSE trace_config_to_witness_block_l1(tc.trace_config, st, suite,
                                                 build.skip_self_destruct, env)
        p == prove(env)
        c == check_post(env.sdb, env.code_db, tc.result, env.order)
    IN IF tc.kind = "Panic"
       THEN [result |-> tc, calls |-> <<"into_traceconfig">>]
       ELSE IF balance_overflow(tc.trace_config.accounts)
       THEN [result |-> Err(SkipTestBalanceOverflow), calls |-> <<"into_traceconfig">>]
       ELSE IF w.out.kind \in {"Err", "Panic"}
       THEN [result |-> w.out, calls |-> <<"into_traceconfig">> \o w.calls]
       ELSE IF w.out.kind = "None"
       THEN [result |-> Ok, calls |-> <<"into_traceconfig">> \o w.calls]
       ELSE IF p.kind = "Panic"
       THEN [result |-> p, calls |-> <<"into_traceconfig">> \o w.calls \o <<"prover">>]
       ELSE [result |-> c,
             calls |-> <<"into_traceconfig">> \o w.calls \o <<"prover", "check_post">>]

(***************************************************************************)
(* The outcome classifier of run_state_test (suite.rs:129-190).            *)
(***************************************************************************)
ResultInfo(test_id, level, details, path) ==
    [test_id |-> test_id, level |-> level, details |-> details, path |-> path]

\* the downcast of the panic payload, suite.rs:133-139
panic_err(payload) ==
    IF payload.type \in {"String", "&str"} THEN payload.msg
    ELSE UNABLE_TO_GET_PANIC_INFO

\* suite.rs:141-147 with the two substring tests in the other order
panic_level_unimplemented_first(msg) ==
    IF contains(msg, EVM_UNIMPLEMENTED) THEN "Ignored"
    ELSE IF contains(msg, CIRCUIT_NOT_SATISFIED) THEN "Fail"
    ELSE "Panic"

\* suite.rs:141-147
panic_level(msg) ==
    IF contains(msg, CIRCUIT_NOT_SATISFIED) THEN "Fail"
    ELSE IF contains(msg, EVM_UNIMPLEMENTED) THEN "Ignored"
    ELSE "Panic"

\* what run_state_test records for the value catch_unwind(run_test) yields
classify(tc, result) ==
    CASE result.kind = "Panic" ->
            ResultInfo(tc.id, panic_level(panic_err(result.payload)),
                       panic_err(result.payload), tc.path)
      [] result.kind = "Err" ->
            ResultInfo(tc.id,
                       IF is_skip(result.err) THEN "Ignored" ELSE "Fail",
                       to_string(result.err), tc.path)
      [] result.kind = "Ok" -> ResultInfo(tc.id, "Success", <<>>, tc.path)

(***************************************************************************)
(* The Result Store (Results::contains, Results::insert).  Entries are     *)
(* keyed by "{test_id}#{path}"; an entry, once stored, stays as it is.     *)
(***************************************************************************)
results_contains(store, key) == key \in DOMAIN store

results_insert(store, info) ==
    IF Key(info.test_id, info.path) \in DOMAIN store THEN store
    ELSE store @@ (Key(info.test_id, info.path) :> info)

\* suite.allowed(test_id)
allowed(s, test_id) == test_id \in s.allowed_ids

(***************************************************************************)
(* Inputs: fixtures, suites, collaborator outcomes.                        *)
(***************************************************************************)
Addresses == {"A", "B"}

SecretKeyGood == [i \in 1..32 |-> IF i = 32 THEN 1 ELSE 0]
SecretKeyMalformed == <<>>

\* pre-states: a plain one, one at the largest balance with a zero top
\* byte, and one where the second account's balance is 2^248
PreStates ==
    { [a \in {"A"} |-> [balance |-> U256From(100)]],
      [a \in {"A"} |-> [balance |-> Pow248m1]],
      [a \in {"A", "B"} |-> [balance |-> IF a = "A" THEN U256From(100) ELSE Pow248]] }

AccountMatch(balance, nonce, code, storage) ==
    [balance |-> balance, nonce |-> nonce, code |-> code, storage |-> storage]

\* expected post-states: {A: balance=90, B: balance=10} and {A: balance=80}
PostStates ==
    { [a \in {"A", "B"} |->
          AccountMatch(Some(U256From(IF a = "A" THEN 90 ELSE 10)), NoValue, NoValue, <<>>)],
      [a \in {"A"} |-> AccountMatch(Some(U256From(80)), NoValue, NoValue, <<>>)] }

\* the block the fixture's transaction is run in
PlainEnv ==
    [current_coinbase |-> "C", current_difficulty |-> 0,
     current_gas_limit |-> 100, current_number |-> 1, current_timestamp |-> 1,
     current_base_fee |-> 0,
     previous_hash |-> [i \in 1..U256Bytes |-> IF i = 1 THEN 7 ELSE 0]]

\* a fixture; its transaction sends 10 from A to B.  The words that
\* into_traceconfig only copies (nonce, value, gas price, difficulty, base
\* fee) are written as numbers
StateTest(id, path, exception, pre, secret_key, result) ==
    [id |-> id, path |-> path, exception |-> exception, pre |-> pre,
     secret_key |-> secret_key, result |-> result,
     env |-> PlainEnv, from |-> "A", to |-> Some("B"), nonce |-> 0,
     value |-> 10, data |-> <<>>, gas_limit |-> 21,
     gas_price |-> 1]

PlainPre == [a \in {"A"} |-> [balance |-> U256From(100)]]
OverflowPre == [a \in {"A"} |-> [balance |-> Pow248]]
TransferPost ==
    [a \in {"A", "B"} |->
        AccountMatch(Some(U256From(IF a = "A" THEN 90 ELSE 10)), NoValue, NoValue, <<>>)]

\* every fixture a one-test batch may hold
Fixtures ==
    { StateTest(id, "p.yml", exception, pre, secret_key, result) :
        id \in {"T1", "denied"}, exception \in BOOLEAN, pre \in PreStates,
        secret_key \in {SecretKeyGood, SecretKeyMalformed}, result \in PostStates }

T1 == StateTest("T1", "p.yml", FALSE, PlainPre, SecretKeyGood, TransferPost)
T2 == StateTest("T2", "p.yml", TRUE, PlainPre, SecretKeyGood, TransferPost)
T3 == StateTest("T3", "q.json", FALSE, OverflowPre, SecretKeyGood, TransferPost)
Denied == StateTest("denied", "p.yml", FALSE, PlainPre, SecretKeyGood, TransferPost)

\* the batches of two and more tests
LongBatches ==
    { <<T1, T2>>, <<T2, T1>>, <<T1, T1>>, <<T1, Denied>>, <<Denied, T2>>,
      <<T3, T1>>, <<T2, T3>>,
      <<T1, T2, T3>>, <<T2, Denied, T1>> }

Batches ==
    { b \in {<<f>> : f \in Fixtures} \cup LongBatches : Len(b) <= MaxTests }

\* the suite: its allow policy and its two limits
Suites ==
    { [allowed_ids |-> {"T1", "T2", "T3"}, max_steps |-> 1, max_gas |-> g] : g \in {0, 1} }

\* the build: which tracer backend is compiled in, and skip-self-destruct
Builds == [scroll : BOOLEAN, skip_self_destruct : BOOLEAN]

FaultTexts == { <<"tracer", "fault">>, <<"insufficient", "funds">> }

TraceOutcomes ==
    { [ok |-> TRUE, traces |-> <<[steps |-> n, gas |-> g, selfdestruct |-> sd]>>] :
        n \in 0..MaxTraceSteps, g \in 0..MaxTraceGas, sd \in BOOLEAN }
    \cup { [ok |-> TRUE, traces |-> <<>>] }
    \cup { [ok |-> FALSE, text |-> t] : t \in FaultTexts }

PanicPayloads ==
    { [type |-> "&str", msg |-> <<"circuit", "was", "not", "satisfied">>],
      [type |-> "String", msg |-> <<"not", "implemented:", "evm_unimplemented">>],
      [type |-> "String",
       msg |-> <<"evm_unimplemented", "and", "circuit", "was", "not", "satisfied">>],
      [type |-> "String", msg |-> <<"circuit", "was", "satisfied">>],
      [type |-> "other", msg |-> <<"circuit", "was", "not", "satisfied">>] }

WitnessOutcomes ==
    { [kind |-> "ok"], [kind |-> "handle_err", text |-> <<"invalid", "opcode">>] }
    \cup { [kind |-> "panic", payload |-> p] : p \in PanicPayloads }

ProveOutcomes ==
    { [kind |-> "pass"] } \cup { [kind |-> "panic", payload |-> p] : p \in PanicPayloads }

Account(nonce, balance, code_hash, storage) ==
    [nonce |-> nonce, balance |-> balance, code_hash |-> code_hash, storage |-> storage]

\* state databases: after the transfer of 10 from A to B, and untouched
Sdbs ==
    { [a \in Addresses |->
          Account(U256From(IF a = "A" THEN 1 ELSE 0),
                  U256From(IF a = "A" THEN 90 ELSE 10), 0, <<>>)],
      [a \in Addresses |->
          Account(U256Zero, U256From(IF a = "A" THEN 100 ELSE 0), 0, <<>>)] }

CodeDbs == { <<>> }

\* the orders in which a HashMap over the addresses of post may iterate
Orders(post) ==
    { o \in UNION { [1..Cardinality(DOMAIN post) -> DOMAIN post] } :
        \A a \in DOMAIN post : \E k \in 1..Len(o) : o[k] = a }

\* the stores a run may start with: empty, or holding one earlier result
InitialStores ==
    { <<>> } \cup
    { (Key(t.id, t.path) :> ResultInfo(t.id, "Fail", <<"earlier", "run">>, t.path)) :
        t \in {T1, T2} }

(***************************************************************************)
(* State of one call of run_statetests_suite.                              *)
(***************************************************************************)
VARIABLES
    batch,            \* the argument tcs: the input batch
    suite,            \* the argument suite
    circuits_config,  \* the argument circuits_config
    build,            \* compile-time features of the build
    results,          \* the Result Store
    suite_pc,         \* "start", "running", "returned" or "panicked"
    tcs,              \* the batch after the cache filter, as indices into batch
    groups,           \* the tests of each execution unit, as indices into batch
    pos,              \* per unit: position in its group of the test at hand
    pc,               \* per unit: where run_state_test stands
    info,             \* per unit: the ResultInfo about to be inserted
    writer,           \* the unit holding the write lock, or NoUnit
    readers,          \* the units holding a read lock
    poisoned,         \* whether the lock is poisoned
    results0,         \* the Result Store as it was when the call started
    log,              \* per test of the batch: what was done for it
    threads,          \* the number of threads of the rayon pool
    claimed           \* the units a thread of the pool has taken up

vars == <<batch, suite, circuits_config, build, results, suite_pc, tcs, groups,
          pos, pc, info, writer, readers, poisoned, results0, log,
          threads, claimed, probe>>

\* Execution units.  With super_circuit unit 0 is the calling thread and
\* runs every test; otherwise unit g runs groups[g] as one rayon task.
Units == 0..(PARALLELISM - 1)

NoInfo == ResultInfo("", "", <<>>, "")

\* no function is under study
NoProbe == [fn |-> "none"]

NoLog == [runs |-> 0, started |-> 0, trace |-> "none", text |-> <<>>,
          result |-> [kind |-> "none"], calls |-> <<>>,
          inserts |-> 0, info |-> NoInfo, unit |-> NoUnit]

Init ==
    /\ batch \in Batches
    /\ suite \in Suites
    /\ circuits_config \in [super_circuit : BOOLEAN]
    /\ build \in Builds
    /\ results \in InitialStores
    \* batches of several tests run under one build and one gas limit
    /\ (Len(batch) > 1 => ~build.scroll /\ ~build.skip_self_destruct /\ suite.max_gas = 1)
    /\ suite_pc = "start"
    /\ tcs = <<>>
    /\ groups = [u \in Units |-> <<>>]
    /\ pos = [u \in Units |-> 1]
    /\ pc = [u \in Units |-> "next"]
    /\ info = [u \in Units |-> NoInfo]
    /\ writer = NoUnit
    /\ readers = {}
    /\ poisoned = FALSE
    /\ results0 = results
    /\ log = [i \in 1..Len(batch) |-> NoLog]
    \* a pool with a thread for every group
    /\ threads = PARALLELISM
    /\ claimed = {}
    /\ probe = NoProbe

(***************************************************************************)
(* run_statetests_suite up to the dispatch (suite.rs:82-98, 193-205).      *)
(***************************************************************************)
RECURSIVE filter_cached_none(_, _, _)
\* the filter that keeps every test, cached or not
filter_cached_none(b, store, k) ==
    IF k > Len(b) THEN <<>> ELSE <<k>> \o filter_cached_none(b, store, k + 1)

RECURSIVE filter_cached_dedup(_, _, _)
\* the filter, also dropping a test whose key an earlier test of the batch has
filter_cached_dedup(b, store, k) ==
    IF k > Len(b) THEN <<>>
    ELSE IF \/ results_contains(store, Key(b[k].id, b[k].path))
            \/ \E j \in 1..(k - 1) : Key(b[j].id, b[j].path) = Key(b[k].id, b[k].path)
         THEN filter_cached_dedup(b, store, k + 1)
         ELSE <<k>> \o filter_cached_dedup(b, store, k + 1)

RECURSIVE filter_cached(_, _, _)
\* the indices i >= k of the batch whose key the store does not contain
filter_cached(b, store, k) ==
    IF k > Len(b) THEN <<>>
    ELSE IF results_contains(store, Key(b[k].id, b[k].path))
         THEN filter_cached(b, store, k + 1)
         ELSE <<k>> \o filter_cached(b, store, k + 1)

RECURSIVE round_robin_from_one(_, _, _)
\* the distribution with the enumeration started at 1: the first test is lost
round_robin_from_one(list, g, k) ==
    IF k >= Len(list) THEN <<>>
    ELSE IF k > 0 /\ k % PARALLELISM = g
         THEN <<list[k + 1]>> \o round_robin_from_one(list, g, k + 1)
         ELSE round_robin_from_one(list, g, k + 1)

RECURSIVE round_robin_short_modulus(_, _, _)
\* the distribution over one group fewer: the last group stays empty
round_robin_short_modulus(list, g, k) ==
    IF k >= Len(list) THEN <<>>
    ELSE IF k % (PARALLELISM - 1) = g
         THEN <<list[k + 1]>> \o round_robin_short_modulus(list, g, k + 1)
         ELSE round_robin_short_modulus(list, g, k + 1)

RECURSIVE round_robin(_, _, _)
\* the elements of list at the (0-based) positions i >= k with i % PARALLELISM = g
round_robin(list, g, k) ==
    IF k >= Len(list) THEN <<>>
    ELSE IF k % PARALLELISM = g
         THEN <<list[k + 1]>> \o round_robin(list, g, k + 1)
         ELSE round_robin(list, g, k + 1)

\* the groups the threads of the pool take up at once: the first n non-empty ones
first_claimed(g, n) ==
    { u \in Units : /\ Len(g[u]) > 0
                    /\ Cardinality({ v \in Units : v < u /\ Len(g[v]) > 0 }) < n }

\* the dispatch that distributes the tests whatever the configuration
StartDistributed ==
    /\ suite_pc = "start"
    /\ LET remaining == filter_cached(batch, results, 1)
       IN /\ tcs' = remaining
          /\ groups' = [u \in Units |-> round_robin(remaining, u, 0)]
    /\ claimed' = first_claimed(groups', threads)
    /\ suite_pc' = "running"
    /\ UNCHANGED <<threads, probe,
                   batch, suite, circuits_config, build, results, pos, pc, info,
                   writer, readers, poisoned, results0, log>>

\* suite.rs:82-98 and 193-202: the cache filter, then the tests are left in
\* one sequence (super_circuit) or distributed over the groups
Start ==
    /\ suite_pc = "start"
    /\ LET remaining == filter_cached(batch, results, 1)
       IN /\ tcs' = remaining
          /\ groups' = IF circuits_config.super_circuit
                       THEN [u \in Units |-> IF u = 0 THEN remaining ELSE <<>>]
                       ELSE [u \in Units |-> round_robin(remaining, u, 0)]
    /\ claimed' = first_claimed(groups', threads)
    /\ suite_pc' = "running"
    /\ UNCHANGED <<threads, probe,
                   batch, suite, circuits_config, build, results, pos, pc, info,
                   writer, readers, poisoned, results0, log>>

(***************************************************************************)
(* The closure run_state_test (suite.rs:99-191), run by unit u for the     *)
(* test at hand.  A statement `results.write().unwrap().insert(..).unwrap()`*)
(* is two steps: taking the write lock, then the insert, at whose end the  *)
(* guard is dropped.  A panic outside catch_unwind ends the unit ("dead"); *)
(* one raised while the write guard is held poisons the lock.              *)
(***************************************************************************)
Active(u) == suite_pc = "running" /\ u \in claimed /\ pos[u] <= Len(groups[u])

\* the group taken from its end
CurFromEnd(u) == groups[u][Len(groups[u]) + 1 - pos[u]]

\* chunk.into_iter() (suite.rs:204): the test of the group the unit is at
Cur(u) == groups[u][pos[u]]

\* suite.rs:100-113, the test is not allowed: Ignored, without running
BeginDenied(u) ==
    /\ Active(u) /\ pc[u] = "next"
    /\ ~allowed(suite, batch[Cur(u)].id)
    /\ info' = [info EXCEPT ![u] =
                  ResultInfo(batch[Cur(u)].id, "Ignored", IGNORED_IN_CONFIG,
                             batch[Cur(u)].path)]
    /\ pc' = [pc EXCEPT ![u] = "write"]
    /\ log' = [log EXCEPT ![Cur(u)].started = @ + 1, ![Cur(u)].unit = u]
    /\ UNCHANGED <<threads, claimed, probe,
                   batch, suite, circuits_config, build, results, suite_pc, tcs,
                   groups, pos, writer, readers, poisoned, results0>>

\* the variant of the allow test that lets every test through
BeginAllowedAny(u) ==
    /\ Active(u) /\ pc[u] = "next"
    /\ pc' = [pc EXCEPT ![u] = "log"]
    /\ log' = [log EXCEPT ![Cur(u)].started = @ + 1, ![Cur(u)].unit = u]
    /\ UNCHANGED <<threads, claimed, probe,
                   batch, suite, circuits_config, build, results, suite_pc, tcs,
                   groups, pos, info, writer, readers, poisoned, results0>>

\* suite.rs:100-115, the test is allowed
BeginAllowed(u) ==
    /\ Active(u) /\ pc[u] = "next"
    /\ allowed(suite, batch[Cur(u)].id)
    /\ pc' = [pc EXCEPT ![u] = "log"]
    /\ log' = [log EXCEPT ![Cur(u)].started = @ + 1, ![Cur(u)].unit = u]
    /\ UNCHANGED <<threads, claimed, probe,
                   batch, suite, circuits_config, build, results, suite_pc, tcs,
                   groups, pos, info, writer, readers, poisoned, results0>>

\* suite.rs:117-124 with the debug level off: the arguments are not evaluated
LogSkip(u) ==
    /\ Active(u) /\ pc[u] = "log"
    /\ pc' = [pc EXCEPT ![u] = "run"]
    /\ UNCHANGED <<threads, claimed, probe,
                   batch, suite, circuits_config, build, results, suite_pc, tcs,
                   groups, pos, info, writer, readers, poisoned, results0, log>>

\* suite.rs:120, results.read().unwrap()
LogRead(u) ==
    /\ Active(u) /\ pc[u] = "log"
    /\ writer = NoUnit /\ ~poisoned
    /\ readers' = readers \cup {u}
    /\ pc' = [pc EXCEPT ![u] = "logging"]
    /\ UNCHANGED <<threads, claimed, probe,
                   batch, suite, circuits_config, build, results, suite_pc, tcs,
                   groups, pos, info, writer, poisoned, results0, log>>

\* suite.rs:120, results.read().unwrap() on a poisoned lock panics
LogReadPoisoned(u) ==
    /\ Active(u) /\ pc[u] = "log"
    /\ writer = NoUnit /\ poisoned
    /\ pc' = [pc EXCEPT ![u] = "dead"]
    /\ UNCHANGED <<threads, claimed, probe,
                   batch, suite, circuits_config, build, results, suite_pc, tcs,
                   groups, pos, info, writer, readers, poisoned, results0, log>>

\* the log statement whose read guard lives on into run_test
LogDoneGuardKept(u) ==
    /\ Active(u) /\ pc[u] = "logging"
    /\ pc' = [pc EXCEPT ![u] = "run"]
    /\ UNCHANGED <<threads, claimed, probe,
                   batch, suite, circuits_config, build, results, suite_pc, tcs,
                   groups, pos, info, writer, readers, poisoned, results0, log>>

\* suite.rs:124, the end of the log statement drops the read guard
LogDone(u) ==
    /\ Active(u) /\ pc[u] = "logging"
    /\ readers' = readers \ {u}
    /\ pc' = [pc EXCEPT ![u] = "run"]
    /\ UNCHANGED <<threads, claimed, probe,
                   batch, suite, circuits_config, build, results, suite_pc, tcs,
                   groups, pos, info, writer, poisoned, results0, log>>

\* catch_unwind absent: a panic of run_test unwinds through run_state_test
catch_unwind_absent(result) == [unwinds |-> result.kind = "Panic", value |-> result]

\* std::panic::catch_unwind (suite.rs:125-127): a panic becomes a value
catch_unwind(result) == [unwinds |-> FALSE, value |-> result]

\* what the collaborators may answer during one run_test of fixture st
Envs(st) ==
    [trace : TraceOutcomes, witness : WitnessOutcomes, prove : ProveOutcomes,
     sdb : Sdbs, code_db : CodeDbs, order : Orders(st.result)]

\* one run_test as seen from outside: its outcome and calls, and what the
\* tracer answered if it was called
Observe(tc, st, env) ==
    LET out == run_test(tc, st, suite, circuits_config, build, env)
        traced == \E k \in 1..Len(out.calls) : out.calls[k] = "tracer"
    IN [result |-> out.result, calls |-> out.calls,
        trace |-> IF ~traced THEN "none" ELSE IF env.trace.ok THEN "ok" ELSE "fault",
        text |-> IF traced /\ ~env.trace.ok THEN env.trace.text ELSE <<>>]

\* suite.rs:125-179: run_test under catch_unwind, then the classification
RunTest(u) ==
    /\ Active(u) /\ pc[u] = "run"
    /\ \E o \in (LET tc == into_traceconfig(batch[Cur(u)])
               IN { Observe(tc, batch[Cur(u)], env) : env \in Envs(batch[Cur(u)]) }) :
          LET c == catch_unwind(o.result)
          IN /\ log' = [log EXCEPT ![Cur(u)] =
                          [@ EXCEPT !.runs = @ + 1, !.trace = o.trace,
                                    !.text = o.text, !.result = o.result,
                                    !.calls = o.calls]]
             /\ IF c.unwinds
                THEN /\ pc' = [pc EXCEPT ![u] = "dead"]
                     /\ info' = info
                ELSE /\ pc' = [pc EXCEPT ![u] = "write"]
                     /\ info' = [info EXCEPT ![u] = classify(batch[Cur(u)], c.value)]
    /\ UNCHANGED <<threads, claimed, probe,
                   batch, suite, circuits_config, build, results, suite_pc, tcs,
                   groups, pos, writer, readers, poisoned, results0>>

\* the write lock granted while read guards are out
AcquireWriteOverReaders(u) ==
    /\ Active(u) /\ pc[u] = "write"
    /\ writer = NoUnit /\ ~poisoned
    /\ writer' = u
    /\ pc' = [pc EXCEPT ![u] = "insert"]
    /\ UNCHANGED <<threads, claimed, probe,
                   batch, suite, circuits_config, build, results, suite_pc, tcs,
                   groups, pos, info, readers, poisoned, results0, log>>

\* results.write().unwrap(), suite.rs:102-104, 148-150, 164-166, 181-183
AcquireWrite(u) ==
    /\ Active(u) /\ pc[u] = "write"
    /\ writer = NoUnit /\ readers = {} /\ ~poisoned
    /\ writer' = u
    /\ pc' = [pc EXCEPT ![u] = "insert"]
    /\ UNCHANGED <<threads, claimed, probe,
                   batch, suite, circuits_config, build, results, suite_pc, tcs,
                   groups, pos, info, readers, poisoned, results0, log>>

\* results.write().unwrap() on a poisoned lock panics
AcquireWritePoisoned(u) ==
    /\ Active(u) /\ pc[u] = "write"
    /\ writer = NoUnit /\ readers = {} /\ poisoned
    /\ pc' = [pc EXCEPT ![u] = "dead"]
    /\ UNCHANGED <<threads, claimed, probe,
                   batch, suite, circuits_config, build, results, suite_pc, tcs,
                   groups, pos, info, writer, readers, poisoned, results0, log>>

\* the insert after which the unit takes its test up again
InsertOkAgain(u) ==
    /\ Active(u) /\ pc[u] = "insert" /\ writer = u
    /\ results' = results_insert(results, info[u])
    /\ writer' = NoUnit
    /\ log' = [log EXCEPT ![Cur(u)].inserts = @ + 1, ![Cur(u)].info = info[u]]
    /\ pc' = [pc EXCEPT ![u] = "next"]
    /\ UNCHANGED <<threads, claimed, probe,
                   batch, suite, circuits_config, build, suite_pc, tcs, groups,
                   pos, info, readers, poisoned, results0>>

\* .insert(..).unwrap() answering Ok: the entry is stored, the guard dropped,
\* run_state_test returns and the unit moves to its next test
InsertOk(u) ==
    /\ Active(u) /\ pc[u] = "insert" /\ writer = u
    /\ results' = results_insert(results, info[u])
    /\ writer' = NoUnit
    /\ log' = [log EXCEPT ![Cur(u)].inserts = @ + 1, ![Cur(u)].info = info[u]]
    /\ pos' = [pos EXCEPT ![u] = @ + 1]
    /\ pc' = [pc EXCEPT ![u] = "next"]
    /\ UNCHANGED <<threads, claimed, probe,
                   batch, suite, circuits_config, build, suite_pc, tcs, groups,
                   info, readers, poisoned, results0>>

\* .insert(..).unwrap() answering Err: the unwrap panics with the guard held
InsertErr(u) ==
    /\ Active(u) /\ pc[u] = "insert" /\ writer = u
    /\ writer' = NoUnit
    /\ poisoned' = TRUE
    /\ pc' = [pc EXCEPT ![u] = "dead"]
    /\ UNCHANGED <<threads, claimed, probe,
                   batch, suite, circuits_config, build, results, suite_pc, tcs,
                   groups, pos, info, readers, results0, log>>

\* the unit has ended: it ran through its tests, or it panicked
Ended(u) == pc[u] = "dead" \/ (pc[u] = "next" /\ pos[u] > Len(groups[u]))

\* groups.into_par_iter().for_each (suite.rs:203-205) on a pool with fewer
\* threads than groups: a thread that has ended a group takes up the next one
Claim(u) ==
    /\ suite_pc = "running"
    /\ u \notin claimed /\ Len(groups[u]) > 0
    /\ \A v \in Units : v < u /\ Len(groups[v]) > 0 => v \in claimed
    /\ Cardinality({ v \in claimed : ~Ended(v) }) < threads
    /\ claimed' = claimed \cup {u}
    /\ UNCHANGED <<threads, probe,
                   batch, suite, circuits_config, build, results, suite_pc, tcs,
                   groups, pos, pc, info, writer, readers, poisoned, results0, log>>

\* the end of the for_each (suite.rs:193-206): Ok(()) when every unit ran
\* through its tests, the panic of a unit otherwise
Finish ==
    /\ suite_pc = "running"
    /\ \A u \in Units : Len(groups[u]) > 0 => u \in claimed
    /\ \A u \in claimed : Ended(u)
    /\ suite_pc' = IF \E u \in Units : pc[u] = "dead" THEN "panicked" ELSE "returned"
    /\ UNCHANGED <<threads, claimed, probe,
                   batch, suite, circuits_config, build, results, tcs, groups,
                   pos, pc, info, writer, readers, poisoned, results0, log>>

Next ==
    \/ Start
    \/ \E u \in Units : BeginDenied(u)
    \/ \E u \in Units : BeginAllowed(u)
    \/ \E u \in Units : LogSkip(u)
    \/ \E u \in Units : LogRead(u)
    \/ \E u \in Units : LogReadPoisoned(u)
    \/ \E u \in Units : LogDone(u)
    \/ \E u \in Units : RunTest(u)
    \/ \E u \in Units : AcquireWrite(u)
    \/ \E u \in Units : AcquireWritePoisoned(u)
    \/ \E u \in Units : InsertOk(u)
    \/ \E u \in Units : InsertErr(u)
    \/ Finish

Spec == Init /\ [][Next]_vars

(***************************************************************************)
(* A batch longer than the number of groups, on a pool of few threads      *)
(* that takes the groups up in index order, with a Result Store whose      *)
(* every insert answers Ok.                                                *)
(***************************************************************************)
MaxThreads == 2

SchedLen == PARALLELISM + 1

\* the i-th fixture of the long batch; the last one has a balance that
\* stops run_test at its balance guard
SchedTest(i) ==
    StateTest("s" \o ToString(i), "p.json", FALSE,
              IF i = SchedLen THEN OverflowPre ELSE PlainPre,
              SecretKeyGood, TransferPost)

SchedBatch == [i \in 1..SchedLen |-> SchedTest(i)]

\* the configuration file allows the last test only
SchedSuite == [allowed_ids |-> {SchedTest(SchedLen).id}, max_steps |-> 1, max_gas |-> 1]

\* empty, or holding an earlier outcome of the third test
SchedStores ==
    { <<>> } \cup
    { Key(SchedTest(3).id, SchedTest(3).path) :>
        ResultInfo(SchedTest(3).id, "Fail", <<"earlier", "run">>, SchedTest(3).path) }

InitSched ==
    /\ batch = SchedBatch
    /\ suite = SchedSuite
    /\ circuits_config \in [super_circuit : BOOLEAN]
    /\ build = [scroll |-> FALSE, skip_self_destruct |-> FALSE]
    /\ results \in SchedStores
    /\ suite_pc = "start"
    /\ tcs = <<>>
    /\ groups = [u \in Units |-> <<>>]
    /\ pos = [u \in Units |-> 1]
    /\ pc = [u \in Units |-> "next"]
    /\ info = [u \in Units |-> NoInfo]
    /\ writer = NoUnit
    /\ readers = {}
    /\ poisoned = FALSE
    /\ results0 = results
    /\ log = [i \in 1..Len(batch) |-> NoLog]
    /\ threads \in 1..MaxThreads
    /\ claimed = {}
    /\ probe = NoProbe

NextSched ==
    \/ Start
    \/ \E u \in Units : Claim(u)
    \/ \E u \in Units : BeginDenied(u)
    \/ \E u \in Units : BeginAllowed(u)
    \/ \E u \in Units : LogSkip(u)
    \/ \E u \in Units : LogRead(u)
    \/ \E u \in Units : LogDone(u)
    \/ \E u \in Units : RunTest(u)
    \/ \E u \in Units : AcquireWrite(u)
    \/ \E u \in Units : InsertOk(u)
    \/ Finish

SpecSched == InitSched /\ [][NextSched]_vars

(***************************************************************************)
(* The variables of run_statetests_suite while a function is studied on    *)
(* its own: no call of it is under way.                                    *)
(***************************************************************************)
NoCall ==
    /\ batch = <<>>
    /\ results = <<>>
    /\ suite_pc = "start"
    /\ tcs = <<>>
    /\ groups = [u \in Units |-> <<>>]
    /\ pos = [u \in Units |-> 1]
    /\ pc = [u \in Units |-> "next"]
    /\ info = [u \in Units |-> NoInfo]
    /\ writer = NoUnit
    /\ readers = {}
    /\ poisoned = FALSE
    /\ results0 = <<>>
    /\ log = <<>>
    /\ threads = PARALLELISM
    /\ claimed = {}

(***************************************************************************)
(* check_post on its own (executor.rs:72-126): the arguments are drawn     *)
(* from the sets below, then the function is applied.                      *)
(***************************************************************************)
\* what a fixture may expect of one account
ExpectedBalances == { NoValue, Some(U256From(90)), Some(U256From(80)) }

ExpectedNonces == { NoValue, Some(U256From(1)), Some(U256Zero) }

ExpectedCodes == { NoValue, Some(<<>>), Some(<<96>>) }

\* slot 3 is set in none of the accounts below
ExpectedStorages ==
    { <<>>,
      << <<3, U256Zero>> >>,
      << <<1, U256From(7)>>, <<2, U256From(8)>> >>,
      << <<2, U256From(9)>>, <<1, U256From(6)>> >> }

AccountMatches ==
    { AccountMatch(b, n, c, st) :
        b \in ExpectedBalances, n \in ExpectedNonces,
        c \in ExpectedCodes, st \in ExpectedStorages }

\* the code database of the builder: hash 1 is the code <<96>>, hash 2 the
\* hash of the empty code; hash 0 stands for an account without code hash
PostCodeDb == (1 :> <<96>>) @@ (2 :> <<>>)

\* the accounts the state database may hold after the transaction
PostAccounts ==
    { Account(U256From(n), U256From(b), h, st) :
        n \in {0, 1}, b \in {90, 91}, h \in {0, 1, 2},
        st \in { <<>>, (1 :> U256From(7)), (1 :> U256From(7)) @@ (2 :> U256From(8)) } }

\* expectations on the balance or the nonce alone
PairMatches ==
    { AccountMatch(Some(U256From(90)), NoValue, NoValue, <<>>),
      AccountMatch(Some(U256From(80)), NoValue, NoValue, <<>>),
      AccountMatch(NoValue, Some(U256From(1)), NoValue, <<>>),
      AccountMatch(Some(U256From(80)), Some(U256From(1)), NoValue, <<>>) }

\* post-states about one address, and about two
PostProbes(code_db) ==
    { [fn |-> "check_post", sdb |-> [a \in Addresses |-> acc], code_db |-> code_db,
       post |-> [a \in {"A"} |-> e], order |-> <<"A">>, out |-> [kind |-> "none"]] :
        e \in AccountMatches, acc \in PostAccounts }
    \cup
    { [fn |-> "check_post",
       sdb |-> [a \in Addresses |-> Account(U256Zero, U256From(90), 0, <<>>)],
       code_db |-> code_db,
       post |-> [a \in Addresses |-> IF a = "A" THEN ea ELSE eb],
       order |-> o, out |-> [kind |-> "none"]] :
        ea \in PairMatches, eb \in PairMatches, o \in { <<"A", "B">>, <<"B", "A">> } }

InitPost ==
    /\ probe \in PostProbes(PostCodeDb)
    /\ NoCall
    /\ suite \in Suites
    /\ circuits_config = [super_circuit |-> FALSE]
    /\ build = [scroll |-> FALSE, skip_self_destruct |-> FALSE]

\* run_test's call of check_post (executor.rs:548)
ApplyCheckPost ==
    /\ probe.fn = "check_post" /\ probe.out.kind = "none"
    /\ probe' = [probe EXCEPT
                   !.out = check_post(probe.sdb, probe.code_db, probe.post, probe.order)]
    /\ UNCHANGED <<threads, claimed,
                   batch, suite, circuits_config, build, results, suite_pc, tcs,
                   groups, pos, pc, info, writer, readers, poisoned, results0, log>>

NextPost == ApplyCheckPost

SpecPost == InitPost /\ [][NextPost]_vars

(***************************************************************************)
(* run_test on its own (executor.rs:483-551): the fixture and the answers  *)
(* of the collaborators are drawn from the sets below, then the function   *)
(* is applied.                                                             *)
(***************************************************************************)
\* the prover passes, or the circuit is not satisfied
RunProveOutcomes ==
    { [kind |-> "pass"] }
    \cup { [kind |-> "panic", payload |-> p] :
             p \in { q \in PanicPayloads : q.type = "&str" \/ Len(q.msg) = 3 } }

RunEnvs(st) ==
    [trace : TraceOutcomes, witness : WitnessOutcomes, prove : RunProveOutcomes,
     sdb : Sdbs, code_db : CodeDbs, order : Orders(st.result)]

RunProbes(tests) ==
    UNION { { [fn |-> "run_test", st |-> st, env |-> e,
               out |-> [result |-> [kind |-> "none"], calls |-> <<>>]] :
                e \in RunEnvs(st) } : st \in tests }

InitRun ==
    /\ probe \in RunProbes({T1, T2})
    /\ NoCall
    /\ suite \in Suites
    /\ circuits_config = [super_circuit |-> FALSE]
    /\ build \in Builds

\* run_state_test's call of run_test (suite.rs:125-127)
ApplyRunTest ==
    /\ probe.fn = "run_test" /\ probe.out.result.kind = "none"
    /\ probe' = [probe EXCEPT
                   !.out = run_test(into_traceconfig(probe.st), probe.st, suite, circuits_config,
                                    build, probe.env)]
    /\ UNCHANGED <<threads, claimed,
                   batch, suite, circuits_config, build, results, suite_pc, tcs,
                   groups, pos, pc, info, writer, readers, poisoned, results0, log>>

NextRun == ApplyRunTest

SpecRun == InitRun /\ [][NextRun]_vars

(***************************************************************************)
(* into_traceconfig on its own (executor.rs:128-198): the fixture is drawn *)
(* from the set below, then the function is applied to it twice.           *)
(***************************************************************************)
\* block hashes, most significant byte first
PreviousHashes ==
    { [i \in 1..U256Bytes |-> 0],
      [i \in 1..U256Bytes |-> IF i = 1 THEN 7 ELSE 0],
      [i \in 1..U256Bytes |-> IF i = U256Bytes THEN 7 ELSE IF i = 2 THEN 1 ELSE 0] }

\* fixtures that differ in their transaction, block, key and pre-state
TcFixtures(st) ==
    { [st EXCEPT !.from = from, !.to = to, !.nonce = n,
                 !.value = v, !.data = d, !.gas_limit = gl,
                 !.env.previous_hash = h, !.pre = pre, !.secret_key = k] :
        from \in Addresses, to \in {NoValue, Some("B")}, n \in {0, 1},
        v \in {0, 10}, d \in { <<>>, <<96>> }, gl \in {21, 100},
        h \in PreviousHashes, pre \in PreStates,
        k \in {SecretKeyGood, SecretKeyMalformed} }

InitTc ==
    /\ probe \in [fn : {"into_traceconfig"}, st : TcFixtures(T1),
                   check_mem_strict : BOOLEAN, outs : { <<>> }]
    /\ NoCall
    /\ suite \in Suites
    /\ circuits_config = [super_circuit |-> FALSE]
    /\ build = [scroll |-> FALSE, skip_self_destruct |-> FALSE]

\* run_test's call of into_traceconfig (executor.rs:490), made twice
ApplyIntoTraceconfig ==
    /\ probe.fn = "into_traceconfig" /\ Len(probe.outs) < 2
    /\ probe' = [probe EXCEPT !.outs = Append(@, into_traceconfig(probe.st))]
    /\ UNCHANGED <<threads, claimed,
                   batch, suite, circuits_config, build, results, suite_pc, tcs,
                   groups, pos, pc, info, writer, readers, poisoned, results0, log>>

NextTc == ApplyIntoTraceconfig

SpecTc == InitTc /\ [][NextTc]_vars

(***************************************************************************)
(* CircuitTestBuilder (test_util.rs:83-311).  `probe.b` is the builder the *)
(* caller holds; each method consumes it and gives back the next one.      *)
(* `probe.events` lists what run did, in the order it did it.              *)
(***************************************************************************)
MaxCalls == 3

\* the NTX of CircuitTestBuilder::<1, 1> (executor.rs:531)
NTX == 1

\* CircuitsParams::default() and a value a caller passes to params()
DefaultParams == [max_evm_rows |-> 0, max_txs |-> 0]
CallerParams == [max_evm_rows |-> 5, max_txs |-> 3]

Circuits == {"evm", "state", "copy"}

\* a witness block: its parameters, the circuits it does not satisfy and
\* the circuits whose degree exceeds 20
Block(params, unsat, oversize) ==
    [circuits_params |-> params, unsat |-> unsat, oversize |-> oversize]

\* blocks a caller builds outside the builder
SuppliedBlocks ==
    { Block(CallerParams, {}, {}), Block(CallerParams, {"evm"}, {}),
      Block(CallerParams, {"state"}, {}), Block(CallerParams, {}, {"evm"}),
      Block(CallerParams, {"copy"}, {"state"}) }

\* test contexts: one whose block satisfies every circuit, one whose block
\* violates the EVM circuit, one the input builder cannot handle
TestContexts == {"ctx_sat", "ctx_unsat", "ctx_unhandled"}

\* the closures a caller registers with block_modifier
BlockModifiers == {"set_max_evm_rows", "double_max_evm_rows"}

\* the checkers: the default one of empty() asserts the prover's verdict is
\* Ok, the other (the doc example, test_util.rs:80) asserts it is an error
Checkers == {"assert_ok", "assert_err"}

\* CircuitTestBuilder::empty
empty ==
    [test_ctx |-> NoValue, circuits_params |-> NoValue, block |-> NoValue,
     evm_checks |-> Some("assert_ok"), state_checks |-> Some("assert_ok"),
     copy_checks |-> Some("assert_ok"), block_modifiers |-> <<>>]

test_ctx(self, ctx) == [self EXCEPT !.test_ctx = Some(ctx)]

block(self, blk) == [self EXCEPT !.block = Some(blk)]

new_from_test_ctx(ctx) == test_ctx(empty, ctx)

new_from_block(blk) == block(empty, blk)

\* params: the assertion of lines 144-147, then the assignment
params(self, p) ==
    IF self.block.some
    THEN Panic("&str", <<"circuit_params", "already", "provided", "in", "the", "block">>)
    ELSE [kind |-> "Ok", self |-> [self EXCEPT !.circuits_params = Some(p)]]

state_checks(self, c) == [self EXCEPT !.state_checks = c]

evm_checks(self, c) == [self EXCEPT !.evm_checks = c]

copy_checks(self, c) == [self EXCEPT !.copy_checks = c]

block_modifier(self, m) == [self EXCEPT !.block_modifiers = Append(@, m)]

\* one registered closure applied to the block
modifier_fn(m, blk) ==
    IF m = "set_max_evm_rows"
    THEN [blk EXCEPT !.circuits_params.max_evm_rows = 7]
    ELSE [blk EXCEPT !.circuits_params.max_evm_rows = (2 * @) % 64]

\* the registered closures applied last first
RECURSIVE apply_modifiers_last_first(_, _)
apply_modifiers_last_first(blk, ms) ==
    IF ms = <<>> THEN [block |-> blk, events |-> <<>>]
    ELSE LET m == ms[Len(ms)]
             rest == apply_modifiers_last_first(modifier_fn(m, blk), SubSeq(ms, 1, Len(ms) - 1))
         IN [block |-> rest.block,
             events |-> <<[ev |-> "modifier", m |-> m]>> \o rest.events]

\* the loop of test_util.rs:250-252
RECURSIVE apply_modifiers(_, _)
apply_modifiers(blk, ms) ==
    IF ms = <<>> THEN [block |-> blk, events |-> <<>>]
    ELSE LET rest == apply_modifiers(modifier_fn(Head(ms), blk), Tail(ms))
         IN [block |-> rest.block,
             events |-> <<[ev |-> "modifier", m |-> Head(ms)]>> \o rest.events]

\* the block the input builder and block_convert give for a test context
\* (test_util.rs:240-247); the unwraps panic on a context they cannot handle
generate_block(ctx, p) ==
    IF ctx = "ctx_unhandled"
    THEN Panic("String", <<"called", "Result::unwrap()", "on", "an", "Err", "value">>)
    ELSE [kind |-> "Ok",
          block |-> Block(p, IF ctx = "ctx_unsat" THEN {"evm"} ELSE {}, {})]

\* build_witness_block with the closures applied to a supplied block too
build_witness_block_modifies_supplied(self) ==
    LET p == IF self.block.some THEN self.block.v.circuits_params
             ELSE IF self.circuits_params.some THEN self.circuits_params.v
             ELSE DefaultParams
        ps == [p EXCEPT !.max_txs = NTX]
    IN IF self.block.some
       THEN LET done == apply_modifiers(self.block.v, self.block_modifiers)
            IN [kind |-> "Ok", block |-> done.block, events |-> done.events]
       ELSE IF self.test_ctx.some
       THEN LET g == generate_block(self.test_ctx.v, ps)
            IN IF g.kind = "Panic" THEN g
               ELSE LET done == apply_modifiers(g.block, self.block_modifiers)
                    IN [kind |-> "Ok", block |-> done.block,
                        events |-> <<[ev |-> "generate", ctx |-> self.test_ctx.v]>>
                                   \o done.events]
       ELSE Panic("&str", <<"No", "attribute", "to", "build", "a", "block", "was",
                            "passed", "to", "the", "CircuitTestBuilder">>)

\* build_witness_block (test_util.rs:205-258)
build_witness_block(self) ==
    LET p == IF self.block.some THEN self.block.v.circuits_params
             ELSE IF self.circuits_params.some THEN self.circuits_params.v
             ELSE DefaultParams
        ps == [p EXCEPT !.max_txs = NTX]
    IN IF self.block.some
       THEN [kind |-> "Ok", block |-> self.block.v, events |-> <<>>]
       ELSE IF self.test_ctx.some
       THEN LET g == generate_block(self.test_ctx.v, ps)
            IN IF g.kind = "Panic" THEN g
               ELSE LET done == apply_modifiers(g.block, self.block_modifiers)
                    IN [kind |-> "Ok", block |-> done.block,
                        events |-> <<[ev |-> "generate", ctx |-> self.test_ctx.v]>>
                                   \o done.events]
       ELSE Panic("&str", <<"No", "attribute", "to", "build", "a", "block", "was",
                            "passed", "to", "the", "CircuitTestBuilder">>)

\* does the checker's assertion fail on the prover of this circuit?
checker_panics(checker, circuit, blk) ==
    IF checker = "assert_ok" THEN circuit \in blk.unsat ELSE circuit \notin blk.unsat

\* one of the three blocks of run (test_util.rs:267-276, 279-295, 298-309):
\* nothing if the checker is None or run has panicked; the degree
\* assertion (none for the copy circuit); then the checker
circuit_test(circuit, checker, blk, acc) ==
    IF acc.kind = "Panic" \/ ~checker.some THEN acc
    ELSE IF circuit # "copy" /\ circuit \in blk.oversize
    THEN [acc EXCEPT !.kind = "Panic"]
    ELSE [acc EXCEPT
            !.kind = IF checker_panics(checker.v, circuit, blk) THEN "Panic" ELSE "Ok",
            !.events = Append(@, [ev |-> "check", circuit |-> circuit])]

\* run with the state circuit tested before the EVM circuit
run_state_first(self) ==
    LET w == build_witness_block(self)
    IN IF w.kind = "Panic" THEN [kind |-> "Panic", events |-> <<>>, block |-> NoValue]
       ELSE LET built == [kind |-> "Ok", events |-> w.events, block |-> Some(w.block)]
            IN
            circuit_test("copy", self.copy_checks, w.block,
              circuit_test("evm", self.evm_checks, w.block,
                circuit_test("state", self.state_checks, w.block, built)))

\* run (test_util.rs:262-310)
run(self) ==
    LET w == build_witness_block(self)
    IN IF w.kind = "Panic" THEN [kind |-> "Panic", events |-> <<>>, block |-> NoValue]
       ELSE LET built == [kind |-> "Ok", events |-> w.events, block |-> Some(w.block)]
            IN
            circuit_test("copy", self.copy_checks, w.block,
              circuit_test("state", self.state_checks, w.block,
                circuit_test("evm", self.evm_checks, w.block, built)))

BuilderFrame ==
    UNCHANGED <<threads, claimed, batch, suite, circuits_config, build, results,
                suite_pc, tcs, groups, pos, pc, info, writer, readers, poisoned,
                results0, log>>

\* the builder right after one of its constructors
InitBuilder ==
    /\ NoCall
    /\ suite \in Suites
    /\ circuits_config = [super_circuit |-> FALSE]
    /\ build = [scroll |-> FALSE, skip_self_destruct |-> FALSE]
    /\ \E b \in {empty} \cup {new_from_test_ctx(c) : c \in TestContexts}
                        \cup {new_from_block(k) : k \in SuppliedBlocks} :
          probe = [fn |-> "CircuitTestBuilder", b |-> b, status |-> "building",
                   calls |-> 0, events |-> <<>>, used |-> NoValue]

Building == probe.fn = "CircuitTestBuilder" /\ probe.status = "building"

\* a call of a method that cannot fail gives the caller the next builder
Built(b) ==
    /\ Building /\ probe.calls < MaxCalls
    /\ probe' = [probe EXCEPT !.b = b, !.calls = @ + 1]
    /\ BuilderFrame

CtbTestCtx == \E c \in TestContexts : Built(test_ctx(probe.b, c))

CtbBlock == \E k \in SuppliedBlocks : Built(block(probe.b, k))

CtbStateChecks == \E c \in {NoValue} \cup {Some(k) : k \in Checkers} : Built(state_checks(probe.b, c))

CtbEvmChecks == \E c \in {NoValue} \cup {Some(k) : k \in Checkers} : Built(evm_checks(probe.b, c))

CtbCopyChecks == \E c \in {NoValue} \cup {Some(k) : k \in Checkers} : Built(copy_checks(probe.b, c))

CtbBlockModifier == \E m \in BlockModifiers : Built(block_modifier(probe.b, m))

\* params: the builder is lost if the assertion fails
CtbParams ==
    /\ Building /\ probe.calls < MaxCalls
    /\ LET r == params(probe.b, CallerParams)
       IN probe' = IF r.kind = "Panic"
                   THEN [probe EXCEPT !.status = "params_panicked", !.calls = @ + 1]
                   ELSE [probe EXCEPT !.b = r.self, !.calls = @ + 1]
    /\ BuilderFrame

\* run: the block is built, then the circuits are tested
CtbRun ==
    /\ Building
    /\ LET r == run(probe.b)
       IN probe' = [probe EXCEPT
                      !.status = IF r.kind = "Panic" THEN "run_panicked" ELSE "returned",
                      !.events = r.events,
                      !.used = r.block]
    /\ BuilderFrame

NextBuilder ==
    \/ CtbTestCtx \/ CtbBlock \/ CtbParams \/ CtbStateChecks \/ CtbEvmChecks
    \/ CtbCopyChecks \/ CtbBlockModifier \/ CtbRun

SpecBuilder == InitBuilder /\ [][NextBuilder]_vars

(***************************************************************************)
(* Vocabulary of the properties.                                           *)
(***************************************************************************)
Tests == 1..Len(batch)

TestKey(i) == Key(batch[i].id, batch[i].path)

\* the test's key was in the Result Store when the call started
Cached(i) == TestKey(i) \in DOMAIN results0

\* run_test has been called for the test and has ended
Ran(i) == log[i].runs > 0

\* an insert for the test has answered Ok
Recorded(i) == log[i].inserts > 0

\* no other test of the batch has the key of test i
UniqueKey(i) == \A j \in Tests : TestKey(j) = TestKey(i) => j = i

\* the level under which test i is recorded: the level handed to insert
\* and, the key being the test's alone, the level the store holds
RecordedAs(i, level) ==
    /\ log[i].info.level = level
    /\ UniqueKey(i) => /\ TestKey(i) \in DOMAIN results
                       /\ results[TestKey(i)] = log[i].info

\* a balance below 2^248 has its most significant byte zero
NoOverflow(st) == \A a \in DOMAIN st.pre : st.pre[a].balance[U256Bytes] = 0

Called(i, name) == \E k \in 1..Len(log[i].calls) : log[i].calls[k] = name

\* the calls of a run_test that ends at the match on the tracer's answer
UpToTracer == <<"into_traceconfig", "tracer">>

(***************************************************************************)
(* C1 - 4.2, 8                                                             *)
(***************************************************************************)
\* C1: for an allowed fixture with no overflowing pre-state balance and
\* exception=true, a successful trace (whatever its steps and gas) makes
\* run_test return Exception{expected:true, found:"no error"}, and the
\* Outcome recorded is Fail.
C1_NoErrorWhenExceptionExpected ==
    \A i \in Tests :
        (/\ Ran(i) /\ allowed(suite, batch[i].id) /\ NoOverflow(batch[i])
         /\ batch[i].exception /\ log[i].trace = "ok")
        => /\ log[i].result = Err(Exception(TRUE, NO_ERROR))
           /\ Recorded(i) =>
                /\ RecordedAs(i, "Fail")
                /\ log[i].info.details =
                     <<"Exception(expected:", "true", ", found:", "no", "error", ")">>

C1_Witness ==
    \E i \in Tests :
        /\ Recorded(i) /\ batch[i].exception /\ log[i].trace = "ok"
        /\ NoOverflow(batch[i]) /\ log[i].info.level = "Fail"

(***************************************************************************)
(* C2 - 4.2, 8                                                             *)
(***************************************************************************)
\* C2: for an allowed fixture with no overflowing pre-state balance and
\* exception=false, a tracer fault makes run_test return
\* Exception{expected:false, found:<fault text>}, the Outcome recorded is
\* Fail, and neither the witness builder, the prover nor check_post is called.
C2_FaultWhenNoExceptionExpected ==
    \A i \in Tests :
        (/\ Ran(i) /\ allowed(suite, batch[i].id) /\ NoOverflow(batch[i])
         /\ ~batch[i].exception /\ log[i].trace = "fault")
        => /\ log[i].result = Err(Exception(FALSE, log[i].text))
           /\ ~Called(i, "witness") /\ ~Called(i, "prover") /\ ~Called(i, "check_post")
           /\ Recorded(i) =>
                /\ RecordedAs(i, "Fail")
                /\ log[i].info.details =
                     <<"Exception(expected:", "false", ", found:">>
                         \o log[i].text \o <<")">>

C2_Witness ==
    \E i \in Tests :
        /\ Recorded(i) /\ ~batch[i].exception /\ log[i].trace = "fault"
        /\ log[i].text = <<"insufficient", "funds">> /\ log[i].info.level = "Fail"

(***************************************************************************)
(* C3 - 4.2, 8                                                             *)
(***************************************************************************)
\* C3: for a fixture with exception=true whose tracer call faults, the
\* Outcome recorded is Success, and the step/gas guards, the witness
\* builder, the prover and check_post are never called for the test.
C3_ExpectedFaultIsSuccess ==
    \A i \in Tests :
        (Ran(i) /\ batch[i].exception /\ log[i].trace = "fault")
        => /\ log[i].result = Ok
           /\ log[i].calls = UpToTracer
           /\ Recorded(i) => RecordedAs(i, "Success")

C3_Witness ==
    \E i \in Tests :
        /\ Recorded(i) /\ batch[i].exception /\ log[i].trace = "fault"
        /\ log[i].info.level = "Success"

(***************************************************************************)
(* C4 - 4.6, 8                                                             *)
(***************************************************************************)
\* C4: a test whose key is in the Result Store when run_statetests_suite
\* starts is never executed (run_state_test is not entered, run_test is not
\* called, nothing is inserted for it) and its stored Outcome stays as it was.
C4_CachedNeverRerun ==
    \A i \in Tests :
        Cached(i) =>
            /\ log[i] = NoLog
            /\ \A u \in Units : \A k \in 1..Len(groups[u]) : groups[u][k] # i
            /\ TestKey(i) \in DOMAIN results
            /\ results[TestKey(i)] = results0[TestKey(i)]

C4_Witness ==
    /\ suite_pc = "returned"
    /\ \E i, j \in Tests : Cached(i) /\ ~Cached(j) /\ Recorded(j)

(***************************************************************************)
(* C5 - 7                                                                  *)
(***************************************************************************)
\* C5: when run_statetests_suite returns, every test of the batch that was
\* not cached at the start has been inserted exactly once and has its entry
\* in the Result Store, whatever the tests produced.
C5_OneOutcomePerTest ==
    suite_pc = "returned" =>
        \A i \in Tests :
            ~Cached(i) => /\ log[i].inserts = 1
                          /\ TestKey(i) \in DOMAIN results
                          /\ UniqueKey(i) => results[TestKey(i)] = log[i].info

C5_Witness ==
    /\ suite_pc = "returned"
    /\ \E i, j \in Tests :
          /\ log[i].result.kind = "Panic" /\ log[j].result.kind = "Err"
          /\ log[i].inserts = 1 /\ log[j].inserts = 1

(***************************************************************************)
(* C6 - 4.6, 5                                                             *)
(***************************************************************************)
\* C6: a panic raised inside run_test never ends the unit that ran the test
\* nor any other unit (a unit ends early only once an insert has failed);
\* the panic is recorded as the Outcome of its test, after which the unit
\* is at its next test.
C6_FaultIsolation ==
    /\ ~poisoned => \A u \in Units : pc[u] # "dead"
    /\ \A i \in Tests :
          log[i].result.kind = "Panic" =>
              /\ ~poisoned => pc[log[i].unit] \in {"write", "insert", "next", "log",
                                                   "logging", "run"}
              /\ Recorded(i) =>
                   /\ log[i].info.level \in {"Fail", "Ignored", "Panic"}
                   /\ log[i].info.test_id = batch[i].id
                   /\ \E k \in 1..Len(groups[log[i].unit]) :
                         groups[log[i].unit][k] = i /\ pos[log[i].unit] > k

C6_Witness ==
    /\ suite_pc = "returned"
    /\ \E i, j \in Tests :
          /\ i < j /\ log[i].unit = log[j].unit
          /\ log[i].result.kind = "Panic" /\ log[i].info.level = "Panic"
          /\ Recorded(i) /\ Recorded(j) /\ Ran(j)

(***************************************************************************)
(* C7 - 4.5, 7, 8                                                          *)
(***************************************************************************)
SkipKinds == {"SkipTestMaxSteps", "SkipTestMaxGasLimit", "SkipTestSelfDestruct",
              "SkipTestBalanceOverflow"}

\* C7: a typed error returned by run_test is recorded as Ignored exactly
\* when it is one of the four skip kinds MaxSteps, MaxGasLimit, SelfDestruct,
\* BalanceOverflow, and as Fail otherwise; so a fixture with a pre-state
\* balance whose top byte is nonzero ends Ignored.
C7_SkipKindsAreIgnored ==
    \A i \in Tests :
        (Recorded(i) /\ log[i].result.kind = "Err") =>
            log[i].info.level = IF log[i].result.err.tag \in SkipKinds
                                THEN "Ignored" ELSE "Fail"

(***************************************************************************)
(* C8 - 4.2                                                                *)
(***************************************************************************)
\* C8 as stated: if a pre-state balance has a nonzero top byte, run_test
\* returns BalanceOverflow and the tracer is never called, whatever the
\* exception flag.
C8_OverflowGuardAsStated ==
    \A i \in Tests :
        (Ran(i) /\ ~NoOverflow(batch[i])) =>
            /\ log[i].result = Err(SkipTestBalanceOverflow)
            /\ ~Called(i, "tracer")

\* C8: if a pre-state balance has a nonzero top byte the tracer is never
\* called, whatever the exception flag, and run_test returns BalanceOverflow
\* provided the signing key is well-formed (with a malformed key the trace
\* request builder panics before the guard).
C8_OverflowGuardBeforeTracer ==
    \A i \in Tests :
        (Ran(i) /\ ~NoOverflow(batch[i])) =>
            /\ log[i].calls = <<"into_traceconfig">>
            /\ log[i].trace = "none"
            /\ log[i].result = IF wallet_from_str(batch[i].secret_key)
                               THEN Err(SkipTestBalanceOverflow)
                               ELSE into_traceconfig(batch[i])

C8_Witness ==
    \E i \in Tests :
        /\ Ran(i) /\ ~NoOverflow(batch[i]) /\ batch[i].exception
        /\ log[i].result = Err(SkipTestBalanceOverflow)

(***************************************************************************)
(* C9 - 4.5                                                                *)
(***************************************************************************)
IsText(payload) == payload.type \in {"String", "&str"}

\* C9: a panic caught at the per-test boundary is classified by its message:
\* Fail if it contains "circuit was not satisfied", otherwise Ignored if it
\* contains "evm_unimplemented", otherwise (also when the payload is not
\* text) Panic; the detail recorded is the message.
C9_PanicClassifiedByMessage ==
    \A i \in Tests :
        (Recorded(i) /\ log[i].result.kind = "Panic") =>
            LET payload == log[i].result.payload
            IN /\ log[i].info.level =
                    IF IsText(payload) /\ contains(payload.msg, CIRCUIT_NOT_SATISFIED)
                    THEN "Fail"
                    ELSE IF IsText(payload) /\ contains(payload.msg, EVM_UNIMPLEMENTED)
                    THEN "Ignored"
                    ELSE "Panic"
               /\ log[i].info.details =
                    IF IsText(payload) THEN payload.msg
                    ELSE <<"unable", "to", "get", "panic", "info">>

C9_Witness ==
    \E i \in Tests :
        /\ Recorded(i) /\ log[i].result.kind = "Panic"
        /\ log[i].info.level = "Fail"
        /\ contains(log[i].result.payload.msg, EVM_UNIMPLEMENTED)

(***************************************************************************)
(* C10 - 4.5                                                               *)
(***************************************************************************)
\* C10: a test whose id the suite policy does not allow is recorded as
\* Ignored and is never run: run_test, the tracer and the prover are not
\* called for it.
C10_DeniedIgnoredWithoutRunning ==
    \A i \in Tests :
        ~allowed(suite, batch[i].id) =>
            /\ log[i].runs = 0 /\ log[i].calls = <<>> /\ log[i].trace = "none"
            /\ \A u \in Units :
                  (pos[u] <= Len(groups[u]) /\ groups[u][pos[u]] = i) =>
                      pc[u] \in {"next", "write", "insert", "dead"}
            /\ Recorded(i) =>
                 /\ RecordedAs(i, "Ignored")
                 /\ log[i].info.details = IGNORED_IN_CONFIG

C10_Witness ==
    /\ suite_pc = "returned"
    /\ \E i \in Tests :
          /\ ~allowed(suite, batch[i].id) /\ Recorded(i)
          /\ results[TestKey(i)].level = "Ignored"

(***************************************************************************)
(* Further vocabulary.                                                     *)
(***************************************************************************)
\* how often x occurs in the sequence
Count(seq, x) == Cardinality({ k \in 1..Len(seq) : seq[k] = x })

\* C11: without super_circuit, the test at (0-based) index i of the
\* non-cached batch is in exactly one group, group i mod 20, once; the
\* groups hold nothing else; each test is worked on by the unit of its
\* group; and when the call returns every non-cached test has been worked
\* on and recorded once, and no cached one has been touched.
C11_RoundRobinPartition ==
    (suite_pc # "start" /\ ~circuits_config.super_circuit) =>
        /\ \A i \in Tests : Count(tcs, i) = IF Cached(i) THEN 0 ELSE 1
        /\ \A k \in 1..Len(tcs) : \A g \in Units :
              Count(groups[g], tcs[k]) = IF g = (k - 1) % PARALLELISM THEN 1 ELSE 0
        /\ \A g \in Units : \A k \in 1..Len(groups[g]) : Count(tcs, groups[g][k]) = 1
        /\ \A i \in Tests : log[i].started > 0 => Count(groups[log[i].unit], i) = 1
        /\ suite_pc = "returned" =>
              \A i \in Tests :
                  /\ log[i].started = (IF Cached(i) THEN 0 ELSE 1)
                  /\ log[i].inserts = log[i].started

\* a batch longer than the number of groups has returned: the test at index
\* 20 of the non-cached batch was worked on by unit 0, after the test at 0
C11_Witness ==
    /\ suite_pc = "returned" /\ ~circuits_config.super_circuit
    /\ Len(tcs) > PARALLELISM
    /\ groups[0] = <<tcs[1], tcs[PARALLELISM + 1]>>
    /\ log[tcs[PARALLELISM + 1]].unit = 0
    /\ Recorded(tcs[PARALLELISM + 1])

(***************************************************************************)
(* What the post-state expects of an account, against what it holds.       *)
(***************************************************************************)
\* check_post has been applied
PostChecked == probe.fn = "check_post" /\ probe.out.kind # "none"

\* the code of the account: empty for the zero code hash
ActualCode(acc) == IF acc.code_hash = 0 THEN <<>> ELSE probe.code_db[acc.code_hash]

\* the value of the slot: zero for a slot that is not set
SlotValue(acc, slot) == IF slot \in DOMAIN acc.storage THEN acc.storage[slot] ELSE U256Zero

BalanceDiffers(a) ==
    probe.post[a].balance.some /\ probe.post[a].balance.v # probe.sdb[a].balance

NonceDiffers(a) ==
    probe.post[a].nonce.some /\ probe.post[a].nonce.v # probe.sdb[a].nonce

CodeDiffers(a) ==
    probe.post[a].code.some /\ probe.post[a].code.v # ActualCode(probe.sdb[a])

SlotDiffers(a, k) ==
    probe.post[a].storage[k][2] # SlotValue(probe.sdb[a], probe.post[a].storage[k][1])

StorageDiffers(a) == \E k \in 1..Len(probe.post[a].storage) : SlotDiffers(a, k)

AccountDiffers(a) ==
    BalanceDiffers(a) \/ NonceDiffers(a) \/ CodeDiffers(a) \/ StorageDiffers(a)

\* a is the first address the iteration meets that differs
FirstDiffering(a) ==
    \E k \in 1..Len(probe.order) :
        /\ probe.order[k] = a /\ AccountDiffers(a)
        /\ \A j \in 1..(k - 1) : ~AccountDiffers(probe.order[j])

\* C12: for the account whose mismatch check_post reports, the fields are
\* compared in the order balance, nonce, code, storage and the first one
\* that differs is returned with the expected and the found value: a
\* balance that differs gives BalanceMismatch whatever the nonce, the code
\* and the storage are.
C12_FirstMismatchInFieldOrder ==
    PostChecked =>
      \A a \in DOMAIN probe.post : FirstDiffering(a) =>
        LET e == probe.post[a]
            acc == probe.sdb[a]
        IN IF BalanceDiffers(a)
           THEN probe.out = Err(BalanceMismatch(e.balance.v, acc.balance))
           ELSE IF NonceDiffers(a)
           THEN probe.out = Err(NonceMismatch(e.nonce.v, acc.nonce))
           ELSE IF CodeDiffers(a)
           THEN probe.out = Err(CodeMismatch(e.code.v, ActualCode(acc)))
           ELSE \E k \in 1..Len(e.storage) :
                   /\ SlotDiffers(a, k)
                   /\ probe.out = Err(StorageMismatch(e.storage[k][1], e.storage[k][2],
                                                      SlotValue(acc, e.storage[k][1])))

\* an account that differs in balance and in nonce, and in code and storage
\* as well, has been reported as a balance mismatch
C12_Witness ==
    /\ PostChecked
    /\ \E a \in DOMAIN probe.post :
          /\ BalanceDiffers(a) /\ NonceDiffers(a) /\ CodeDiffers(a) /\ StorageDiffers(a)
          /\ probe.out.kind = "Err" /\ probe.out.err.tag = "BalanceMismatch"
          /\ probe.out.err.expected = probe.post[a].balance.v
          /\ probe.out.err.found = probe.sdb[a].balance

\* C13: check_post returns Ok exactly when no address of the post-state
\* differs in a field the fixture constrains; an absent balance, nonce or
\* code constrains nothing, the zero code hash counts as the empty code and
\* a slot that is not set counts as zero.
C13_OkIffEveryConstraintHolds ==
    PostChecked =>
      (probe.out = Ok <=> \A a \in DOMAIN probe.post : ~AccountDiffers(a))

\* Ok for an account without code hash and without slot 3, of which the
\* empty code and zero at slot 3 are expected, and nothing else
C13_Witness ==
    /\ PostChecked /\ probe.out = Ok
    /\ \E a \in DOMAIN probe.post :
          /\ ~probe.post[a].balance.some /\ ~probe.post[a].nonce.some
          /\ probe.post[a].code = Some(<<>>) /\ probe.sdb[a].code_hash = 0
          /\ probe.post[a].storage = << <<3, U256Zero>> >>
          /\ 3 \notin DOMAIN probe.sdb[a].storage

(***************************************************************************)
(* The life of a test: Pending, Running, then the level of its Outcome.    *)
(***************************************************************************)
Levels == {"Success", "Ignored", "Fail", "Panic"}

Phase(i) ==
    IF log[i].started = 0 THEN "Pending"
    ELSE IF log[i].inserts = 0 THEN "Running"
    ELSE log[i].info.level

\* one step in the life of test i
PhaseStep(i) ==
    /\ \/ Phase(i)' = Phase(i)
       \/ Phase(i) = "Pending" /\ Phase(i)' = "Running"
       \/ Phase(i) = "Running" /\ Phase(i)' \in Levels
    /\ log'[i].started <= 1 /\ log'[i].runs <= 1 /\ log'[i].inserts <= 1
    /\ log[i].inserts > 0 => log'[i].info = log[i].info

\* no entry of the Result Store is removed or changed
StoreKept == \A k \in DOMAIN results : k \in DOMAIN results' /\ results'[k] = results[k]

\* the step inserts the Outcome of test i
Inserts(i) == log'[i].inserts > log[i].inserts

\* C14 as stated: every step keeps each test on the path Pending, Running,
\* one Outcome, keeps every entry of the Result Store as it is, and inserts
\* only under a key the store does not hold yet.
C14_WriteOnceAsStated ==
    [][ /\ \A i \in Tests : PhaseStep(i)
        /\ StoreKept
        /\ \A i \in Tests : Inserts(i) => TestKey(i) \notin DOMAIN results ]_vars

\* C14, amended: as above, but a key receives a second insert when two
\* non-cached tests of the batch carry it.
C14_WriteOncePerTest ==
    [][ /\ \A i \in Tests : PhaseStep(i)
        /\ StoreKept
        /\ \A i \in Tests : Inserts(i) /\ UniqueKey(i) =>
              TestKey(i) \notin DOMAIN results ]_vars

\* the call has returned with the Outcome of a test in the store, next to
\* an entry the store held before the call
C14_Witness ==
    /\ suite_pc = "returned"
    /\ \E i \in Tests :
          /\ ~Cached(i) /\ UniqueKey(i) /\ Phase(i) \in Levels
          /\ results[TestKey(i)] = log[i].info
    /\ \E k \in DOMAIN results0 : results[k] = results0[k]

(***************************************************************************)
(* The lock around the Result Store.                                       *)
(***************************************************************************)
\* the units inside an insert, and those inside the read of the progress
Inserting == { u \in Units : pc[u] = "insert" }

Reading == { u \in Units : pc[u] = "logging" }

\* one writer at most, and no reader next to a writer
Exclusion ==
    /\ Cardinality(Inserting) <= 1
    /\ Inserting # {} => Reading = {}
    /\ writer # NoUnit => readers = {}

\* every insert is made by the holder of the write lock, every read of the
\* progress by a holder of a read lock
Guarded ==
    /\ \A u \in Inserting : writer = u
    /\ \A u \in Reading : u \in readers

\* the step looks the tests of the batch up in the store (suite.rs:82-87)
Lookup == suite_pc = "start" /\ suite_pc' = "running"

\* C15 as stated: inserts are made under the write lock, the reads of the
\* progress and the lookups of cached results under a read lock; there is
\* one writer at most and no reader next to a writer.
C15_LockAsStated ==
    [][ /\ Guarded /\ Guarded'
        /\ Exclusion /\ Exclusion'
        /\ Lookup => readers # {} ]_vars

\* C15, amended: the lookups of cached results are made under no lock,
\* before a unit has started and with no lock taken; the rest as stated.
C15_LockExceptLookup ==
    [][ /\ Guarded /\ Guarded'
        /\ Exclusion /\ Exclusion'
        /\ Lookup => /\ readers = {} /\ writer = NoUnit
                      /\ \A u \in Units : pc[u] = "next" /\ pos[u] = 1
                      /\ \A i \in Tests : log[i].started = 0 ]_vars

\* after the lookups, a unit is inside its insert while another unit waits
\* for the lock
C15_Witness ==
    /\ suite_pc = "running"
    /\ \E u \in Inserting : \E v \in Units \ {u} :
          /\ writer = u
          /\ Active(v) /\ pc[v] \in {"log", "write"}

(***************************************************************************)
(* Concurrency of the two configurations.                                  *)
(***************************************************************************)
Running(i) == Phase(i) = "Running"

\* the tests of group g that are Running
RunningIn(g) == { k \in 1..Len(groups[g]) : Running(groups[g][k]) }

C17_SuperCircuitSequential ==
    (suite_pc # "start" /\ circuits_config.super_circuit) =>
        /\ Cardinality({ i \in Tests : Running(i) }) <= 1
        /\ \A i \in Tests : log[i].started > 0 => log[i].unit = 0
        /\ \A k \in 1..(Len(tcs) - 1) :
              log[tcs[k + 1]].started > 0 => Phase(tcs[k]) \in Levels

\* with super_circuit a test is Running and the one before it has its Outcome
C17_Witness ==
    /\ suite_pc = "running" /\ circuits_config.super_circuit
    /\ \E k \in 1..(Len(tcs) - 1) :
          Phase(tcs[k]) \in Levels /\ Running(tcs[k + 1])

\* C18, as what it says of the end of a call: no worker stops short of the
\* end of its partition, and the call ends only when every non-cached test
\* has reached its Outcome.
C18_BatchRunsToCompletion ==
    /\ \A u \in Units : pc[u] # "dead"
    /\ suite_pc \in {"returned", "panicked"} =>
          \A i \in Tests : ~Cached(i) => Phase(i) \in Levels

(***************************************************************************)
(* Failures of witness construction.                                       *)
(***************************************************************************)
\* run_test of test i ended in the witness builder, with an error or a panic
WitnessFailed(i) ==
    /\ Len(log[i].calls) > 0
    /\ log[i].calls[Len(log[i].calls)] = "witness"
    /\ log[i].result.kind \in {"Err", "Panic"}

\* C19 as stated: a test whose witness construction failed is never
\* recorded Ignored.
C19_WitnessFailureNeverIgnored ==
    \A i \in Tests :
        WitnessFailed(i) /\ Recorded(i) => log[i].info.level # "Ignored"

\* C19, amended: an error returned by the witness builder is recorded Fail;
\* a panic of the builder is recorded Fail or Panic, and Ignored only when
\* its message contains "evm_unimplemented" and not "circuit was not
\* satisfied".
C19_WitnessFailureIgnoredOnlyByMessage ==
    \A i \in Tests :
        WitnessFailed(i) /\ Recorded(i) =>
            /\ log[i].info.level \in {"Fail", "Panic", "Ignored"}
            /\ log[i].result.kind = "Err" => log[i].info.level = "Fail"
            /\ log[i].info.level = "Ignored" =>
                  /\ log[i].result.kind = "Panic"
                  /\ contains(panic_err(log[i].result.payload), EVM_UNIMPLEMENTED)
                  /\ ~contains(panic_err(log[i].result.payload), CIRCUIT_NOT_SATISFIED)

\* the L1 builder returned an error for a test, recorded as Fail
C19_Witness ==
    \E i \in Tests :
        /\ WitnessFailed(i) /\ Recorded(i)
        /\ ~build.scroll
        /\ log[i].result.kind = "Err" /\ log[i].result.err.tag = "CircuitInput"
        /\ log[i].info.level = "Fail"

(***************************************************************************)
(* The guards on the trace.                                                *)
(***************************************************************************)
\* run_test has been applied
RunChecked == probe.fn = "run_test" /\ probe.out.result.kind # "none"

\* the tracer answered with a trace and the fixture expects no exception
TraceAccepted ==
    /\ ~probe.st.exception
    /\ probe.env.trace.ok /\ Len(probe.env.trace.traces) > 0

TheTrace == probe.env.trace.traces[1]

ProbeCalled(name) == \E k \in 1..Len(probe.out.calls) : probe.out.calls[k] = name

\* run_test ended at the guards: nothing was called after them
StoppedAtGuards ==
    probe.out.calls = <<"into_traceconfig", "tracer", "check_geth_traces">>

\* the build looks for SELFDESTRUCT and the trace has one
SelfDestructSkip == build.skip_self_destruct /\ TheTrace.selfdestruct

\* what C20 says of a trace with these steps and this gas
GuardsAsStated ==
    /\ TheTrace.steps > suite.max_steps =>
          /\ probe.out.result = Err(SkipTestMaxSteps(TheTrace.steps))
          /\ StoppedAtGuards
    /\ (TheTrace.steps <= suite.max_steps /\ suite.max_gas # 0
            /\ TheTrace.gas > suite.max_gas) =>
          /\ probe.out.result = Err(SkipTestMaxGasLimit(TheTrace.gas))
          /\ StoppedAtGuards
    /\ (TheTrace.steps = suite.max_steps /\ TheTrace.gas = suite.max_gas) =>
          ProbeCalled("witness")

C21_ZeroMaxGasDisablesGuard ==
    (RunChecked /\ suite.max_gas = 0) =>
        ~(probe.out.result.kind = "Err"
            /\ probe.out.result.err.tag = "SkipTestMaxGasLimit")

\* with max_gas = 0 a trace within the step limit that used gas went on to
\* the witness builder
C21_Witness ==
    /\ RunChecked /\ TraceAccepted /\ ~SelfDestructSkip
    /\ suite.max_gas = 0
    /\ TheTrace.steps <= suite.max_steps /\ TheTrace.gas > 0
    /\ ProbeCalled("witness")

(***************************************************************************)
(* Independence of the executions.                                         *)
(***************************************************************************)
\* unit u is about to execute run_test
Executing(u) == Active(u) /\ pc[u] = "run"

\* no lock is held outside an insert or a read of the progress
LockFreeExecution ==
    /\ \A u \in Units : Executing(u) => writer # u /\ u \notin readers
    /\ \A u \in Units : writer = u => pc[u] = "insert"
    /\ \A u \in readers : pc[u] = "logging"

\* C22: a unit that executes run_test holds neither the write lock nor a
\* read lock, the locks being held inside an insert or a read of the
\* progress only; and no step of another unit, whatever it is, takes the
\* unit out of the state in which run_test can be executed.
C22_ExecutionNeverBlocked ==
    [][ /\ LockFreeExecution /\ LockFreeExecution'
        /\ \A u \in Units :
              (Executing(u) /\ pc'[u] = pc[u] /\ suite_pc' = suite_pc) => Executing(u)'
      ]_vars

\* a unit is about to execute run_test while another unit is inside its
\* insert, holding the write lock
C22_Witness ==
    \E u, v \in Units :
        /\ u # v /\ Executing(u)
        /\ writer = v /\ pc[v] = "insert"

(***************************************************************************)
(* The trace request.                                                      *)
(***************************************************************************)
\* what C23 says of the request built from fixture st
RequestOf(st, out) ==
    /\ out.id = st.id /\ out.result = st.result
    /\ out.trace_config.chain_id = 1
    /\ Len(out.trace_config.transactions) = 1
    /\ LET tx == out.trace_config.transactions[1]
       IN /\ tx.from = st.from /\ tx.to = st.to /\ tx.nonce = st.nonce
          /\ tx.value = st.value /\ tx.call_data = st.data
          /\ tx.gas_limit = U256From(st.gas_limit) /\ tx.gas_price = st.gas_price
    /\ Len(out.trace_config.history_hashes) = 1
    /\ to_be_bytes(out.trace_config.history_hashes[1]) = st.env.previous_hash
    /\ out.trace_config.accounts = st.pre

RunEnded ==
    probe.fn = "CircuitTestBuilder" /\ probe.status \in {"returned", "run_panicked"}

CheckEvent(c) == [ev |-> "check", circuit |-> c]

\* the checker of circuit c was called in the list of events
CheckRanIn(events, c) == \E k \in 1..Len(events) : events[k] = CheckEvent(c)

CheckRan(c) == CheckRanIn(probe.events, c)

CheckerOf(self, c) ==
    IF c = "evm" THEN self.evm_checks
    ELSE IF c = "state" THEN self.state_checks ELSE self.copy_checks

WithoutChecker(self, c) ==
    IF c = "evm" THEN evm_checks(self, NoValue)
    ELSE IF c = "state" THEN state_checks(self, NoValue) ELSE copy_checks(self, NoValue)

Rank(c) == IF c = "evm" THEN 1 ELSE IF c = "state" THEN 2 ELSE 3

\* C24 as stated: once run has ended, each of the three checks has run if
\* and only if its checker is not None.
C24_ChecksAsStated ==
    RunEnded => \A c \in Circuits : CheckRan(c) <=> CheckerOf(probe.b, c).some

\* C24: in a run of the builder a checker that is None is never called; a
\* run that returns has called every checker that is not None, and so has a
\* run up to the circuit where it panics; the calls are in the order EVM,
\* State, Copy, each at most once; and a check that is executed is still
\* executed when another checker is replaced by None.
C24_ChecksRunUntilPanic ==
    /\ RunEnded =>
          /\ \A c \in Circuits : CheckRan(c) => CheckerOf(probe.b, c).some
          /\ probe.status = "returned" =>
                \A c \in Circuits : CheckerOf(probe.b, c).some => CheckRan(c)
          /\ \A c, d \in Circuits :
                (Rank(c) < Rank(d) /\ CheckRan(d) /\ CheckerOf(probe.b, c).some)
                    => CheckRan(c)
          /\ \A k, l \in 1..Len(probe.events) :
                (k < l /\ probe.events[k].ev = "check" /\ probe.events[l].ev = "check")
                    => Rank(probe.events[k].circuit) < Rank(probe.events[l].circuit)
    /\ Building =>
          \A c, d \in Circuits :
              (c # d /\ CheckRanIn(run(probe.b).events, d))
                  => CheckRanIn(run(WithoutChecker(probe.b, c)).events, d)

\* the executor's use of the builder (executor.rs:531-534): a supplied
\* block, the copy checker replaced by None, and a run that returned after
\* the EVM check and then the State check
C24_Witness ==
    /\ RunEnded /\ probe.status = "returned"
    /\ probe.b.block.some /\ ~probe.b.copy_checks.some
    /\ probe.events = <<CheckEvent("evm"), CheckEvent("state")>>

\* the block after the first k of the closures ms, taken in their order
RECURSIVE ModifiedBy(_, _, _)
ModifiedBy(blk, ms, k) ==
    IF k = 0 THEN blk ELSE modifier_fn(ms[k], ModifiedBy(blk, ms, k - 1))

\* run generated its block from the builder's test context
GeneratedFromContext ==
    /\ RunEnded /\ ~probe.b.block.some /\ probe.b.test_ctx.some /\ probe.used.some

\* the parameters the block is generated with (test_util.rs:206-211)
GenerationParams ==
    [(IF probe.b.circuits_params.some THEN probe.b.circuits_params.v ELSE DefaultParams)
        EXCEPT !.max_txs = NTX]

\* C25: when run generates the block from the test context, every
\* registered block modifier is applied to it, in the order of
\* registration, and every circuit check comes after the last of them and
\* is given the block so modified.
C25_ModifiersBeforeChecks ==
    GeneratedFromContext =>
        LET ms == probe.b.block_modifiers
            n == Len(ms)
        IN /\ Len(probe.events) >= n + 1
           /\ probe.events[1] = [ev |-> "generate", ctx |-> probe.b.test_ctx.v]
           /\ \A k \in 1..n : probe.events[k + 1] = [ev |-> "modifier", m |-> ms[k]]
           /\ \A k \in 1..Len(probe.events) : probe.events[k].ev = "check" => k > n + 1
           /\ probe.used.v =
                 ModifiedBy(generate_block(probe.b.test_ctx.v, GenerationParams).block, ms, n)

\* two closures that do not commute were registered and a check ran on the
\* block they gave
C25_Witness ==
    /\ GeneratedFromContext
    /\ probe.b.block_modifiers = <<"double_max_evm_rows", "set_max_evm_rows">>
    /\ probe.used.v.circuits_params.max_evm_rows = 7
    /\ CheckRan("evm")

\* C30: params() panics on a builder that holds a block; run panics, before
\* any check, on a builder that holds neither a block nor a test context;
\* and on a builder that holds a block, run gives the checks that very
\* block: nothing is generated from a test context and no block modifier
\* is applied.
C30_SuppliedBlockUsedAsIs ==
    /\ (Building /\ probe.b.block.some) => params(probe.b, CallerParams).kind = "Panic"
    /\ (probe.fn = "CircuitTestBuilder" /\ probe.status = "params_panicked")
          => probe.b.block.some
    /\ (RunEnded /\ ~probe.b.block.some /\ ~probe.b.test_ctx.some)
          => probe.status = "run_panicked" /\ probe.events = <<>> /\ ~probe.used.some
    /\ (RunEnded /\ probe.b.block.some)
          => /\ probe.used = probe.b.block
             /\ \A k \in 1..Len(probe.events) : probe.events[k].ev = "check"

\* run was called on a builder that held a block, a test context and a
\* block modifier that would have changed the block, and a check ran
C30_Witness ==
    /\ RunEnded /\ probe.b.block.some /\ probe.b.test_ctx.some
    /\ \E k \in 1..Len(probe.b.block_modifiers) :
          modifier_fn(probe.b.block_modifiers[k], probe.b.block.v) # probe.b.block.v
    /\ CheckRan("evm")

(***************************************************************************)
(* Precedence among the reasons to stop at the trace.                      *)
(***************************************************************************)
\* the tracer answered with a trace
Traced == probe.env.trace.ok /\ Len(probe.env.trace.traces) > 0

StepsGuardViolated == TheTrace.steps > suite.max_steps

GasGuardViolated == suite.max_gas # 0 /\ TheTrace.gas > suite.max_gas

\* the fixture expects an exception and the tracer reported none
ExceptionViolation == probe.st.exception /\ probe.env.trace.ok

ResultIs(e) == probe.out.result = Err(e)

ResultTag(tag) ==
    probe.out.result.kind = "Err" /\ probe.out.result.err.tag = tag

\* the part of C26 on the exception: the violation is what run_test
\* returns, whichever guards the trace violates
ExceptionFirst ==
    (RunChecked /\ ExceptionViolation) => ResultIs(Exception(TRUE, NO_ERROR))

\* C26 as stated: a trace that violates both guards is reported as MaxSteps
\* and never as MaxGasLimit, and an exception-expectation violation is
\* reported whichever guards are violated.
C26_PrecedenceAsStated ==
    /\ (RunChecked /\ ~probe.st.exception /\ Traced
            /\ StepsGuardViolated /\ GasGuardViolated)
          => ResultIs(SkipTestMaxSteps(TheTrace.steps))
    /\ ExceptionFirst

\* C26, amended: a trace that violates both guards is never reported as
\* MaxGasLimit; it is reported as MaxSteps unless the build looks for
\* SELFDESTRUCT and the trace has one, and then as SelfDestruct; an
\* exception-expectation violation is reported whichever guards are
\* violated and whether or not the trace has a SELFDESTRUCT.
C26_PrecedenceAfterSelfDestruct ==
    /\ (RunChecked /\ Traced /\ StepsGuardViolated /\ GasGuardViolated)
          => ~ResultTag("SkipTestMaxGasLimit")
    /\ (RunChecked /\ ~probe.st.exception /\ Traced
            /\ StepsGuardViolated /\ GasGuardViolated)
          => IF SelfDestructSkip
             THEN ResultIs(SkipTestSelfDestruct)
             ELSE ResultIs(SkipTestMaxSteps(TheTrace.steps))
    /\ ExceptionFirst

\* a trace over both limits was reported as MaxSteps
C26_Witness ==
    /\ RunChecked /\ ~probe.st.exception /\ Traced /\ ~SelfDestructSkip
    /\ StepsGuardViolated /\ GasGuardViolated
    /\ ResultIs(SkipTestMaxSteps(TheTrace.steps))
    /\ StoppedAtGuards

(***************************************************************************)
(* The proof comes before the comparison of the post-state.                *)
(***************************************************************************)
\* the proving step of this run_test faulted
ProverFaulted ==
    RunChecked /\ ProbeCalled("prover") /\ probe.env.prove.kind = "panic"

\* check_post, had it been called, would have returned a mismatch
WouldMismatch ==
    check_post(probe.env.sdb, probe.env.code_db, probe.st.result, probe.env.order).kind = "Err"

\* the level run_state_test records for what run_test returned
Outcome == classify(probe.st, catch_unwind(probe.out.result).value).level

\* run_test returned a mismatch of the post-state
PostMismatch ==
    /\ probe.out.result.kind = "Err"
    /\ probe.out.result.err.tag \in
          {"BalanceMismatch", "NonceMismatch", "CodeMismatch", "StorageMismatch"}

\* check_post is called only after a proving step that passed
PostAfterProof ==
    /\ ProverFaulted =>
          /\ ~ProbeCalled("check_post")
          /\ probe.out.result = [kind |-> "Panic", payload |-> probe.env.prove.payload]
          /\ Outcome = panic_level(panic_err(probe.env.prove.payload))
    /\ (RunChecked /\ ProbeCalled("check_post")) =>
          /\ probe.env.prove.kind = "pass"
          /\ probe.out.calls[Len(probe.out.calls) - 1] = "prover"
          /\ probe.out.calls[Len(probe.out.calls)] = "check_post"
    /\ (RunChecked /\ PostMismatch) =>
          ProbeCalled("check_post") /\ probe.env.prove.kind = "pass"

\* C27 as stated: check_post is called only after the proving step has
\* passed; when the proving step faults, check_post is not called and the
\* Outcome is that of the fault, Fail or Panic, whatever the post-state is;
\* a post-state mismatch is returned only if the proving step passed.
C27_PostAfterProofAsStated ==
    /\ PostAfterProof
    /\ ProverFaulted => Outcome \in {"Fail", "Panic"}

\* C27, amended: as stated, but the Outcome of a fault of the proving step
\* is Fail, Panic or Ignored: Ignored when the fault's message contains
\* "evm_unimplemented" and not "circuit was not satisfied".
C27_PostAfterProofByMessage ==
    /\ PostAfterProof
    /\ ProverFaulted =>
          /\ Outcome \in {"Fail", "Panic", "Ignored"}
          /\ Outcome = "Ignored" <=>
                /\ contains(panic_err(probe.env.prove.payload), EVM_UNIMPLEMENTED)
                /\ ~contains(panic_err(probe.env.prove.payload), CIRCUIT_NOT_SATISFIED)

\* the proving step faulted on a test whose post-state would not have
\* matched: check_post was not called and the Outcome is Fail
C27_Witness ==
    /\ ProverFaulted /\ WouldMismatch
    /\ ~ProbeCalled("check_post")
    /\ Outcome = "Fail"

(***************************************************************************)
(* A failing insert.                                                       *)
(***************************************************************************)
\* an insert has answered Err: the one place where the lock is poisoned
InsertFailed == poisoned

\* the non-cached tests for which no insert has answered Ok
Unrecorded == { i \in Tests : ~Cached(i) /\ ~Recorded(i) }

\* C28: when an insert has answered Err for one test, the call still ends
\* with every other non-cached test of the batch executed (unless the
\* suite does not allow it) and recorded: at most the one test is left
\* without an Outcome.
C28_InsertErrorIsolated ==
    (InsertFailed /\ suite_pc \in {"returned", "panicked"}) =>
        /\ Cardinality(Unrecorded) <= 1
        /\ \A i \in Tests :
              (~Cached(i) /\ allowed(suite, batch[i].id)) => Ran(i)

(***************************************************************************)
(* Two tests of the batch with one key.                                    *)
(***************************************************************************)
\* tests i and j, i first, carry the same key, which the store did not hold
Duplicates(i, j) == i < j /\ TestKey(i) = TestKey(j) /\ ~Cached(i)

\* C29 as stated: of two tests of the batch with the same non-cached key,
\* at most one is executed and at most one is inserted.
C29_DuplicateKeyRunOnce ==
    \A i, j \in Tests :
        Duplicates(i, j) =>
            /\ log[i].runs + log[j].runs <= 1
            /\ log[i].inserts + log[j].inserts <= 1

\* C29, amended: the cache check compares a test with the store as it was
\* at the start only.  Each test of the batch is started, executed and
\* inserted at most once, but two tests with the same non-cached key are
\* both dispatched, and a call that returns has executed both (if the
\* suite allows the id) and has inserted both.
C29_DuplicateKeyRunPerTest ==
    /\ \A i \in Tests :
          log[i].started <= 1 /\ log[i].runs <= 1 /\ log[i].inserts <= 1
    /\ suite_pc # "start" =>
          \A i \in Tests : ~Cached(i) <=> \E k \in 1..Len(tcs) : tcs[k] = i
    /\ suite_pc = "returned" =>
          \A i, j \in Tests :
              Duplicates(i, j) =>
                  /\ log[i].inserts = 1 /\ log[j].inserts = 1
                  /\ allowed(suite, batch[i].id) => log[i].runs = 1 /\ log[j].runs = 1

\* a call has returned after executing and inserting both of two tests
\* with the same key
C29_Witness ==
    /\ suite_pc = "returned"
    /\ \E i, j \in Tests :
          /\ Duplicates(i, j)
          /\ log[i].runs = 1 /\ log[j].runs = 1
          /\ log[i].inserts = 1 /\ log[j].inserts = 1

====
